---------------------------- MODULE Spec2Model ----------------------------
(***************************************************************************)
(* A model of edi_generator.py: the segment encoder and accumulator        *)
(* (EDIBuilder), the envelope builder (build_envelope), the six            *)
(* transaction generators, the dispatcher generate_edi, apply_lob and the   *)
(* command line (main).                                                    *)
(*                                                                         *)
(* Text is modelled as TLA+ strings, rendered the way the code renders it  *)
(* (join, zfill, ljust, slicing, strftime), so that a rendered segment can *)
(* be taken apart again by a reader.  The pseudo-random source is a        *)
(* deterministic stream: its state is the pair (cur, step) and the k-th    *)
(* draw after the state is (cur + k*step) % RngMod, scaled to the range    *)
(* the call asks for; step 0 is the stream that repeats one value.         *)
(***************************************************************************)
EXTENDS Integers, Sequences, FiniteSets, TLC

VARIABLES
    builder,    \* the EDIBuilder in use: delimiters and accumulated segments
    rng,        \* state of the module-level random source
    clock,      \* what datetime.now() returns
    active,     \* the six active_* data pools, each by the table it refers to
    call,       \* the operation performed last, with its arguments
    out,        \* what that operation returned or raised
    pc,         \* "builder": an EDIBuilder is driven directly;
                \* "ready" / "done": before / after a generate_edi call
    files,      \* what runs of main have written, oldest first
    main        \* the run of main in progress: its arguments and loop position

vars == <<builder, rng, clock, active, call, out, pc, files, main>>

---------------------------------------------------------------------------
(* Bounds of the model *)

\* number of distinct raw values of the random stream
RngMod == 5
\* largest count hint passed to a generator
MaxCount == 2
\* longest body handed to build_envelope directly
MaxBodyLen == 3
\* segments added directly to a builder before an envelope is built
MaxAdds == 1

---------------------------------------------------------------------------
(* Text helpers: Python's str, slicing, ljust, zfill, join *)

Min(a, b) == IF a < b THEN a ELSE b

Max(a, b) == IF a > b THEN a ELSE b

DIGITS == "0123456789"

ASCII_UPPERCASE == "ABCDEFGHIJKLMNOPQRSTUVWXYZ"

CharAt(s, i) == SubSeq(s, i, i)

\* str(n) for an integer n
RECURSIVE ToStr(_)
ToStr(n) ==
    IF n < 0 THEN "-" \o ToStr(-n)
    ELSE IF n < 10 THEN CharAt(DIGITS, n + 1)
    ELSE ToStr(n \div 10) \o CharAt(DIGITS, (n % 10) + 1)

\* s[:n]
Prefix(s, n) == SubSeq(s, 1, Min(Max(n, 0), Len(s)))

\* s.ljust(width, fill)
RECURSIVE ljust(_, _, _)
ljust(s, width, fill) ==
    IF Len(s) >= width THEN s ELSE ljust(s \o fill, width, fill)

\* zfill with a seeded fault: nothing is added
zfill_none(s, width) == s

\* s.zfill(width): zeros go after a leading sign
RECURSIVE zfill(_, _)
zfill(s, width) ==
    IF Len(s) >= width THEN s
    ELSE IF Len(s) > 0 /\ CharAt(s, 1) \in {"+", "-"}
         THEN CharAt(s, 1) \o zfill("0" \o SubSeq(s, 2, Len(s)), width - 1)
         ELSE zfill("0" \o s, width)

\* sep.join(parts[lo .. hi]), lo <= hi, by halves
RECURSIVE JoinRange(_, _, _, _)
JoinRange(parts, sep, lo, hi) ==
    IF lo = hi THEN parts[lo]
    ELSE LET mid == (lo + hi) \div 2
         IN JoinRange(parts, sep, lo, mid) \o sep \o JoinRange(parts, sep, mid + 1, hi)

\* sep.join(parts)
Join(parts, sep) ==
    IF Len(parts) = 0 THEN "" ELSE JoinRange(parts, sep, 1, Len(parts))

\* s.replace(" ", "")
RECURSIVE RemoveSpaces(_)
RemoveSpaces(s) ==
    IF Len(s) = 0 THEN ""
    ELSE (IF CharAt(s, 1) = " " THEN "" ELSE CharAt(s, 1))
         \o RemoveSpaces(SubSeq(s, 2, Len(s)))

\* f"{x:.2f}" for an amount x held in cents
Money(cents) ==
    IF cents < 0
    THEN "-" \o ToStr((-cents) \div 100) \o "." \o zfill(ToStr((-cents) % 100), 2)
    ELSE ToStr(cents \div 100) \o "." \o zfill(ToStr(cents % 100), 2)

\* pad with a seeded fault: a shorter value is not filled up
pad_no_fill(value, length, fill) == Prefix(value, length)

\* pad with a seeded fault: a longer value is not cut
pad_no_truncate(value, length, fill) == ljust(value, length, fill)

pad(value, length, fill) == ljust(Prefix(value, length), length, fill)

---------------------------------------------------------------------------
(* The random source *)

RngStates == [cur : 0 .. RngMod - 1, step : {0, 1}]

\* the raw value of the k-th draw after state r
Raw(r, k) == (r.cur + k * r.step) % RngMod

\* the state after n draws
Advance(r, n) == [r EXCEPT !.cur = (r.cur + n * r.step) % RngMod]

\* random.randint(a, b): both ends are drawn, raw 0 gives a
randint(raw, a, b) ==
    IF b - a + 1 <= RngMod THEN a + (raw * (b - a + 1)) \div RngMod
    ELSE IF raw = RngMod - 1 THEN b
    ELSE a + raw * ((b - a) \div (RngMod - 1))

\* random.choice(pool)
choice(raw, pool) == pool[randint(raw, 1, Len(pool))]

\* "".join(random.choices(alphabet, k=k))
choices(raw, alphabet, k) ==
    LET ch(i) == CharAt(alphabet, 1 + ((raw * 7 + i * (raw + 1)) % Len(alphabet)))
        RECURSIVE build(_)
        build(i) == IF i > k THEN "" ELSE ch(i) \o build(i + 1)
    IN build(1)

\* random.sample(pool, n): n distinct entries
sample(raw, pool, n) ==
    LET start == randint(raw, 1, Len(pool))
    IN [i \in 1 .. n |-> pool[((start + i - 2) % Len(pool)) + 1]]

\* 10 ** digits
RECURSIVE Pow10(_)
Pow10(digits) == IF digits = 0 THEN 1 ELSE 10 * Pow10(digits - 1)

\* control_number with a seeded fault: the number is not padded to its width
control_number_unpadded(raw, digits) == ToStr(randint(raw, 1, Pow10(digits) - 1))

control_number(raw, digits) ==
    zfill(ToStr(randint(raw, 1, Pow10(digits) - 1)), digits)

npi(raw) == "1" \o choices(raw, DIGITS, 9)

member_id(raw) == choices(raw, ASCII_UPPERCASE, 3) \o choices(raw, DIGITS, 9)

claim_id(raw) == choices(raw, DIGITS, 12)

tax_id(raw) == choices(raw, DIGITS, 9)

---------------------------------------------------------------------------
(* Dates: a datetime is [ord |-> days since 2020-01-01, hm |-> minute of    *)
(* the day]; strftime computes the calendar fields from it.                 *)

IsLeap(y) == (y % 4 = 0 /\ y % 100 # 0) \/ y % 400 = 0

DaysInYear(y) == IF IsLeap(y) THEN 366 ELSE 365

DaysInMonth(y, m) ==
    IF m = 2 THEN (IF IsLeap(y) THEN 29 ELSE 28)
    ELSE IF m \in {4, 6, 9, 11} THEN 30 ELSE 31

RECURSIVE DaysBeforeYear(_)
DaysBeforeYear(y) == IF y <= 2020 THEN 0 ELSE DaysBeforeYear(y - 1) + DaysInYear(y - 1)

RECURSIVE DaysBeforeMonth(_, _)
DaysBeforeMonth(y, m) == IF m <= 1 THEN 0 ELSE DaysBeforeMonth(y, m - 1) + DaysInMonth(y, m - 1)

\* datetime(y, m, d, H, M)
DateTime(y, m, d, H, M) ==
    [ord |-> DaysBeforeYear(y) + DaysBeforeMonth(y, m) + d - 1, hm |-> 60 * H + M]

RECURSIVE YearOf(_, _)
YearOf(ord, y) == IF ord < DaysInYear(y) THEN <<y, ord>> ELSE YearOf(ord - DaysInYear(y), y + 1)

RECURSIVE MonthOf(_, _, _)
MonthOf(y, rest, m) ==
    IF rest < DaysInMonth(y, m) THEN <<m, rest + 1>> ELSE MonthOf(y, rest - DaysInMonth(y, m), m + 1)

\* the fields (year, month, day) of a datetime
Fields(dt) ==
    LET yr == YearOf(dt.ord, 2020)
        md == MonthOf(yr[1], yr[2], 1)
    IN [y |-> yr[1], m |-> md[1], d |-> md[2]]

\* dt + timedelta(days=k)
PlusDays(dt, k) == [dt EXCEPT !.ord = dt.ord + k]

\* dt.strftime(fmt) for the three formats the program uses
strftime(dt, fmt) ==
    LET f == Fields(dt)
        two(n) == zfill(ToStr(n), 2)
    IN CASE fmt = "%Y%m%d" -> zfill(ToStr(f.y), 4) \o two(f.m) \o two(f.d)
         [] fmt = "%y%m%d" -> two(f.y % 100) \o two(f.m) \o two(f.d)
         [] fmt = "%H%M" -> two(dt.hm \div 60) \o two(dt.hm % 60)

date_str(dt, fmt) == strftime(dt, fmt)

time_str(dt) == strftime(dt, "%H%M")

\* the readings of the clock the model starts from
Clocks == {DateTime(2026, 11, 2, 13, 4), DateTime(2025, 1, 3, 0, 7)}

---------------------------------------------------------------------------
(* Sample data pools *)

\* src/edi_generator.py lines 82-90
PAYER_NAMES ==
    << <<"TRAVELERS INSURANCE", "61425">>,
       <<"HARTFORD FINANCIAL", "36273">>,
       <<"LIBERTY MUTUAL GROUP", "71412">>,
       <<"SEDGWICK CMS", "59274">>,
       <<"GALLAGHER BASSETT", "23189">>,
       <<"ZURICH INSURANCE", "99281">>,
       <<"EMPLOYERS HOLDINGS", "45917">> >>

\* src/edi_generator.py lines 92-97
MANAGED_CARE_ORGS ==
    << <<"ONE CALL CARE MANAGEMENT", "ONECALL", "1234567890">>,
       <<"COVENTRY WC", "COVWC", "2345678901">>,
       <<"CORVEL CORPORATION", "CORVEL", "3456789012">>,
       <<"FIRST HEALTH NETWORK", "FHNET", "4567890123">> >>

\* src/edi_generator.py lines 99-108
PROVIDER_NAMES ==
    << <<"SMITH", "ROBERT", "MD">>,
       <<"JOHNSON", "MARIA", "DO">>,
       <<"WILLIAMS", "JAMES", "DC">>,
       <<"BROWN", "PATRICIA", "PT">>,
       <<"DAVIS", "MICHAEL", "OT">>,
       <<"GARCIA", "JENNIFER", "DPM">>,
       <<"MILLER", "DAVID", "MD">>,
       <<"WILSON", "LINDA", "PhD">> >>

\* src/edi_generator.py lines 110-119
FACILITY_NAMES ==
    << "PREMIER ORTHOPEDIC CENTER",
       "REGIONAL REHABILITATION CLINIC",
       "ADVANCED IMAGING ASSOCIATES",
       "COASTAL PHYSICAL THERAPY",
       "METRO PAIN MANAGEMENT",
       "SUMMIT SURGICAL CENTER",
       "VALLEY SPINE INSTITUTE",
       "HARBOR OCCUPATIONAL HEALTH" >>

\* src/edi_generator.py lines 121-130
PATIENT_NAMES ==
    << <<"THOMPSON", "WILLIAM", "A", "M", "19780315">>,
       <<"MARTINEZ", "SARAH", "L", "F", "19850622">>,
       <<"ANDERSON", "JOHN", "R", "M", "19700108">>,
       <<"TAYLOR", "ELIZABETH", "M", "F", "19920417">>,
       <<"THOMAS", "RICHARD", "D", "M", "19650930">>,
       <<"JACKSON", "MICHELLE", "K", "F", "19880211">>,
       <<"WHITE", "CHRISTOPHER", "J", "M", "19750820">>,
       <<"HARRIS", "AMANDA", "S", "F", "19830714">> >>

\* src/edi_generator.py lines 132-141
ADDRESSES ==
    << <<"123 MAIN ST", "JACKSONVILLE", "FL", "32256">>,
       <<"456 OAK AVE", "DALLAS", "TX", "75201">>,
       <<"789 PINE RD", "COLUMBUS", "OH", "43215">>,
       <<"321 ELM BLVD", "TAMPA", "FL", "33602">>,
       <<"654 MAPLE DR", "PHOENIX", "AZ", "85004">>,
       <<"987 CEDAR LN", "NASHVILLE", "TN", "37203">>,
       <<"111 BIRCH CT", "DENVER", "CO", "80202">>,
       <<"222 WALNUT ST", "PORTLAND", "OR", "97201">> >>

\* src/edi_generator.py lines 144-163
PROCEDURE_CODES ==
    << <<"99213", "Office visit - established, moderate", 9500>>,
       <<"99214", "Office visit - established, high", 14500>>,
       <<"99203", "Office visit - new, moderate", 16500>>,
       <<"97110", "Therapeutic exercises", 4200>>,
       <<"97140", "Manual therapy techniques", 4500>>,
       <<"97530", "Therapeutic activities", 4000>>,
       <<"97112", "Neuromuscular re-education", 4400>>,
       <<"72148", "MRI lumbar spine w/o contrast", 47500>>,
       <<"72141", "MRI cervical spine w/o contrast", 45000>>,
       <<"73721", "MRI lower extremity joint w/o", 42500>>,
       <<"20610", "Arthrocentesis major joint", 12500>>,
       <<"64483", "Epidural injection lumbar/sacral", 35000>>,
       <<"27447", "Total knee replacement", 285000>>,
       <<"29881", "Knee arthroscopy/meniscectomy", 120000>>,
       <<"98940", "Chiropractic manipulation 1-2 regions", 5500>>,
       <<"98941", "Chiropractic manipulation 3-4 regions", 6500>>,
       <<"97035", "Ultrasound therapy", 2500>>,
       <<"97010", "Hot/cold pack application", 1500>> >>

\* src/edi_generator.py lines 165-178
ICD10_CODES ==
    << <<"M5416", "Radiculopathy, lumbar region">>,
       <<"M5412", "Radiculopathy, cervical region">>,
       <<"S8350XA", "Sprain of knee, unspecified, initial">>,
       <<"M7911", "Myalgia, right shoulder">>,
       <<"S4300XA", "Dislocation of shoulder joint, initial">>,
       <<"M5136", "Intervertebral disc degeneration, lumbar">>,
       <<"S93401A", "Sprain of ankle, initial encounter">>,
       <<"G8929", "Other chronic pain">>,
       <<"M75110", "Rotator cuff tear, right shoulder">>,
       <<"S62009A", "Fracture of navicular bone of wrist, initial">>,
       <<"M7010", "Bursitis of knee">>,
       <<"S83511A", "Sprain of ACL of right knee, initial">> >>

\* src/edi_generator.py lines 180-185
PLACE_OF_SERVICE ==
    << <<"11", "Office">>,
       <<"22", "Outpatient Hospital">>,
       <<"24", "Ambulatory Surgical Center">>,
       <<"49", "Independent Clinic">> >>

\* src/edi_generator.py lines 197-206
AUTH_SERVICE_TYPES ==
    << <<"PT", "Physical Therapy", "3">>,
       <<"OT", "Occupational Therapy", "3">>,
       <<"MR", "MRI", "1">>,
       <<"SC", "Surgical Consultation", "1">>,
       <<"PM", "Pain Management", "3">>,
       <<"DC", "Chiropractic", "3">>,
       <<"DI", "Diagnostic Imaging", "1">>,
       <<"SG", "Surgery", "1">> >>

---------------------------------------------------------------------------
(* Line-of-business profiles (prices in cents) *)

LOB_PT ==
    [name |-> "Physical Therapy",
     procedure_codes |->
       << <<"97110", "Therapeutic exercises", 4200>>,
          <<"97140", "Manual therapy techniques", 4500>>,
          <<"97530", "Therapeutic activities", 4000>>,
          <<"97112", "Neuromuscular re-education", 4400>>,
          <<"97035", "Ultrasound therapy", 2500>>,
          <<"97010", "Hot/cold pack application", 1500>>,
          <<"97150", "Group therapeutic procedures", 3000>>,
          <<"97116", "Gait training therapy", 3800>>,
          <<"97542", "Wheelchair management training", 4200>>,
          <<"97760", "Orthotic management and training", 4800>>,
          <<"97164", "PT re-evaluation", 8500>>,
          <<"97161", "PT evaluation low complexity", 9500>>,
          <<"97162", "PT evaluation moderate complexity", 11500>>,
          <<"97163", "PT evaluation high complexity", 13500>>,
          <<"97113", "Aquatic therapy", 4800>>, <<"97542", "Wheelchair management", 4200>>,
          <<"97750", "Physical performance test", 5500>>,
          <<"97799", "Physical therapy service", 5000>> >>,
     provider_names |->
       << <<"BROWN", "PATRICIA", "PT">>, <<"CHEN", "DAVID", "PT">>,
          <<"PATEL", "ANITA", "DPT">>, <<"OCONNOR", "SEAN", "PT">>,
          <<"RODRIGUEZ", "CARMEN", "DPT">>, <<"LARSEN", "ERIK", "PT">> >>,
     facility_names |->
       << "COASTAL PHYSICAL THERAPY", "PEAK PERFORMANCE REHABILITATION",
          "PROGRESSIVE PT AND SPORTS REHAB", "AQUATIC THERAPY CENTER",
          "HAND AND UPPER EXTREMITY CLINIC", "WORK HARDENING AND CONDITIONING CTR",
          "TOTAL BODY REHABILITATION", "PINNACLE PHYSICAL THERAPY" >>,
     icd10_codes |->
       << <<"M5416", "Radiculopathy, lumbar region">>,
          <<"M5412", "Radiculopathy, cervical region">>,
          <<"S8350XA", "Sprain of knee, unspecified, initial">>,
          <<"M7911", "Myalgia, right shoulder">>,
          <<"S93401A", "Sprain of ankle, initial encounter">>,
          <<"M75110", "Rotator cuff tear, right shoulder">>, <<"M7010", "Bursitis of knee">>,
          <<"S83511A", "Sprain of ACL of right knee, initial">>,
          <<"M5136", "Intervertebral disc degeneration, lumbar">>,
          <<"S46011A", "Strain of rotator cuff, right shoulder, initial">>,
          <<"M79641", "Pain in right hand">>,
          <<"S62009A", "Fracture of navicular bone of wrist, initial">> >>,
     auth_service_types |->
       << <<"PT", "Physical Therapy", "3">> >>,
     place_of_service |->
       << <<"11", "Office">>, <<"49", "Independent Clinic">> >>]

LOB_OT ==
    [name |-> "Occupational Therapy",
     procedure_codes |->
       << <<"97530", "Therapeutic activities", 4000>>,
          <<"97110", "Therapeutic exercises", 4200>>,
          <<"97140", "Manual therapy techniques", 4500>>,
          <<"97535", "Self-care/home management training", 4600>>,
          <<"97537", "Community/work reintegration", 4800>>,
          <<"97542", "Wheelchair management training", 4200>>,
          <<"97760", "Orthotic management and training", 4800>>,
          <<"97167", "OT re-evaluation", 8500>>,
          <<"97165", "OT evaluation low complexity", 9500>>,
          <<"97166", "OT evaluation moderate complexity", 11500>>,
          <<"97750", "Physical performance test/FCE", 5500>>,
          <<"29125", "Forearm splint application", 6500>>,
          <<"29130", "Finger splint application", 4500>>,
          <<"97112", "Neuromuscular re-education", 4400>> >>,
     provider_names |->
       << <<"DAVIS", "MICHAEL", "OT">>, <<"NAKAMURA", "KENJI", "OTR">>,
          <<"BROOKS", "LISA", "OT">>, <<"HOFFMAN", "ANNA", "OTR/L">>,
          <<"GARCIA", "CARLOS", "OT">> >>,
     facility_names |->
       << "HARBOR OCCUPATIONAL HEALTH", "FUNCTIONAL RESTORATION CENTER",
          "HAND AND UPPER EXTREMITY CLINIC", "WORK HARDENING AND CONDITIONING CTR",
          "OCCUPATIONAL REHAB SPECIALISTS", "CERTIFIED HAND THERAPY CENTER" >>,
     icd10_codes |->
       << <<"S62009A", "Fracture of navicular bone of wrist, initial">>,
          <<"S66011A", "Strain of flexor tendon of right thumb, initial">>,
          <<"M79641", "Pain in right hand">>,
          <<"S4300XA", "Dislocation of shoulder joint, initial">>,
          <<"M7911", "Myalgia, right shoulder">>,
          <<"G5600", "Carpal tunnel syndrome, unspecified">>,
          <<"S63011A", "Subluxation of distal radioulnar joint, initial">>,
          <<"M75110", "Rotator cuff tear, right shoulder">>, <<"M7010", "Bursitis of knee">> >>,
     auth_service_types |->
       << <<"OT", "Occupational Therapy", "3">> >>,
     place_of_service |->
       << <<"11", "Office">>, <<"49", "Independent Clinic">> >>]

LOB_DC ==
    [name |-> "Chiropractic",
     procedure_codes |->
       << <<"98940", "Chiropractic manipulation 1-2 regions", 5500>>,
          <<"98941", "Chiropractic manipulation 3-4 regions", 6500>>,
          <<"98942", "Chiropractic manipulation 5 regions", 7500>>,
          <<"97140", "Manual therapy techniques", 4500>>,
          <<"97110", "Therapeutic exercises", 4200>>,
          <<"97010", "Hot/cold pack application", 1500>>,
          <<"97035", "Ultrasound therapy", 2500>>,
          <<"97012", "Mechanical traction therapy", 3000>>,
          <<"97014", "Electrical stimulation unattended", 2000>>,
          <<"97032", "Electrical stimulation manual", 3500>>,
          <<"97112", "Neuromuscular re-education", 4400>> >>,
     provider_names |->
       << <<"WILLIAMS", "JAMES", "DC">>, <<"PETERSON", "MARK", "DC">>,
          <<"CHANG", "LISA", "DC">>, <<"MURPHY", "BRIAN", "DC">>,
          <<"FOSTER", "DIANE", "DC">> >>,
     facility_names |->
       << "VALLEY SPINE INSTITUTE", "ADVANCED CHIROPRACTIC CENTER",
          "SPINAL CARE AND REHABILITATION", "TOTAL WELLNESS CHIROPRACTIC",
          "APEX SPINE AND JOINT CLINIC" >>,
     icd10_codes |->
       << <<"M5416", "Radiculopathy, lumbar region">>,
          <<"M5412", "Radiculopathy, cervical region">>,
          <<"M5136", "Intervertebral disc degeneration, lumbar">>,
          <<"M5432", "Cervicalgia">>, <<"M5442", "Lumbago with sciatica, left side">>,
          <<"M545", "Low back pain">>,
          <<"M9901", "Segmental and somatic dysfunction of cervical">>,
          <<"M9903", "Segmental and somatic dysfunction of lumbar">>,
          <<"G8929", "Other chronic pain">> >>,
     auth_service_types |->
       << <<"DC", "Chiropractic", "3">> >>,
     place_of_service |->
       << <<"11", "Office">> >>]

LOB_DX ==
    [name |-> "Diagnostics",
     procedure_codes |->
       << <<"72148", "MRI lumbar spine w/o contrast", 47500>>,
          <<"72141", "MRI cervical spine w/o contrast", 45000>>,
          <<"73721", "MRI lower extremity joint w/o", 42500>>,
          <<"73221", "MRI upper extremity joint w/o", 41500>>,
          <<"72149", "MRI lumbar spine w/ contrast", 57500>>,
          <<"73720", "MRI lower extremity w/o then w/", 65000>>,
          <<"72131", "CT lumbar spine w/o contrast", 32500>>,
          <<"72125", "CT cervical spine w/o contrast", 31000>>,
          <<"73700", "CT lower extremity w/o contrast", 29500>>,
          <<"73200", "CT upper extremity w/o contrast", 28500>>,
          <<"73030", "X-ray shoulder 2+ views", 5500>>,
          <<"73560", "X-ray knee 1-2 views", 4500>>,
          <<"73110", "X-ray wrist 3+ views", 5000>>,
          <<"72100", "X-ray lumbar spine 2-3 views", 6500>>,
          <<"76882", "Ultrasound extremity, limited", 12500>>,
          <<"76881", "Ultrasound extremity, complete", 17500>>,
          <<"95907", "EMG nerve conduction 1-2 studies", 18500>>,
          <<"95908", "EMG nerve conduction 3-4 studies", 25000>>,
          <<"95909", "EMG nerve conduction 5-6 studies", 31500>>,
          <<"95886", "Needle EMG each extremity", 19500>>,
          <<"95885", "Needle EMG limited study", 14500>> >>,
     provider_names |->
       << <<"MILLER", "DAVID", "MD">>, <<"KIM", "SUSAN", "MD">>,
          <<"RAMIREZ", "JORGE", "MD">>, <<"WALSH", "KATHLEEN", "DO">>,
          <<"SINGH", "RAJESH", "MD">> >>,
     facility_names |->
       << "ADVANCED IMAGING ASSOCIATES", "PREMIER DIAGNOSTIC CENTER",
          "REGIONAL MRI AND CT CENTER", "OPEN MRI OF JACKSONVILLE",
          "NEURODIAGNOSTIC ASSOCIATES", "RADIOLOGY PARTNERS WC", "OUTPATIENT IMAGING CENTER" >>,
     icd10_codes |->
       << <<"M5416", "Radiculopathy, lumbar region">>,
          <<"M5412", "Radiculopathy, cervical region">>,
          <<"M5136", "Intervertebral disc degeneration, lumbar">>,
          <<"M75110", "Rotator cuff tear, right shoulder">>,
          <<"S83511A", "Sprain of ACL of right knee, initial">>,
          <<"S8350XA", "Sprain of knee, unspecified, initial">>,
          <<"G5600", "Carpal tunnel syndrome, unspecified">>,
          <<"M7010", "Bursitis of knee">>,
          <<"S4300XA", "Dislocation of shoulder joint, initial">>,
          <<"M7911", "Myalgia, right shoulder">>, <<"G8929", "Other chronic pain">> >>,
     auth_service_types |->
       << <<"MR", "MRI", "1">>, <<"DI", "Diagnostic Imaging", "1">> >>,
     place_of_service |->
       << <<"22", "Outpatient Hospital">>, <<"49", "Independent Clinic">> >>]

LOB_DME ==
    [name |-> "Durable Medical Equipment",
     procedure_codes |->
       << <<"E0112", "Crutches, underarm, wood, pair", 4500>>,
          <<"E0114", "Crutches, underarm, adjustable, pair", 5500>>,
          <<"E0130", "Walker, rigid, adjustable", 8500>>,
          <<"E0143", "Walker, folding, wheeled", 12500>>, <<"E0601", "CPAP device", 45000>>,
          <<"E0720", "TENS unit 2-lead", 12000>>, <<"E0730", "TENS unit 4-lead", 15000>>,
          <<"E0935", "Continuous passive motion device", 27500>>,
          <<"E1390", "Oxygen concentrator", 32500>>,
          <<"E0185", "Gel mattress overlay", 17500>>,
          <<"L0631", "Lumbar support, prefabricated", 8500>>,
          <<"L1832", "Knee orthosis, adjustable", 24500>>,
          <<"L3808", "Wrist hand orthosis, rigid", 16500>>,
          <<"L3916", "Ankle foot orthosis, rigid", 29500>>,
          <<"L3960", "Shoulder elbow orthosis", 38500>>,
          <<"A4556", "Electrodes for TENS per pair", 1200>>,
          <<"A4558", "TENS unit supplies, 2-lead, per month", 3500>>,
          <<"E0193", "Powered air flotation mattress", 47500>>,
          <<"K0001", "Standard wheelchair", 35000>>,
          <<"K0004", "High strength lightweight wheelchair", 85000>> >>,
     provider_names |->
       << <<"ORTHOTECH", "SUPPLY", "DME">>, <<"MEDLINE", "SERVICES", "DME">>,
          <<"NATIONAL", "SEATING", "DME">>, <<"PROSTHETIC", "SOLUTIONS", "CP">> >>,
     facility_names |->
       << "NATIONAL DME PROVIDERS", "MEDICAL EQUIPMENT SPECIALISTS",
          "REHAB TECHNOLOGY SOLUTIONS", "PROSTHETIC AND ORTHOTIC CENTER",
          "HOME MEDICAL SUPPLY CO", "ADAPTIVE EQUIPMENT SERVICES" >>,
     icd10_codes |->
       << <<"S8350XA", "Sprain of knee, unspecified, initial">>,
          <<"M5416", "Radiculopathy, lumbar region">>,
          <<"S62009A", "Fracture of navicular bone of wrist, initial">>,
          <<"S93401A", "Sprain of ankle, initial encounter">>,
          <<"M75110", "Rotator cuff tear, right shoulder">>,
          <<"S4300XA", "Dislocation of shoulder joint, initial">>,
          <<"G8929", "Other chronic pain">>, <<"M7010", "Bursitis of knee">> >>,
     auth_service_types |->
       << <<"DM", "Durable Medical Equipment", "1">> >>,
     place_of_service |->
       << <<"12", "Home">>, <<"49", "Independent Clinic">> >>]

LOB_HH ==
    [name |-> "Home Health / Complex Care",
     procedure_codes |->
       << <<"99341", "Home visit new patient, low", 9500>>,
          <<"99342", "Home visit new patient, moderate", 14500>>,
          <<"99347", "Home visit established, low", 7500>>,
          <<"99348", "Home visit established, moderate", 11500>>,
          <<"99349", "Home visit established, high", 15500>>,
          <<"99504", "Home visit nursing care, complex", 12500>>,
          <<"99507", "Home visit for wound care", 11000>>,
          <<"97110", "Therapeutic exercises (home PT)", 4200>>,
          <<"97530", "Therapeutic activities (home OT)", 4000>>,
          <<"S9123", "Nursing care in home per hour, RN", 8500>>,
          <<"S9124", "Nursing care in home per hour, LPN", 5500>>,
          <<"T1030", "Nursing care in home, per diem, RN", 45000>>,
          <<"T1031", "Nursing care in home, per diem, LPN", 30000>>,
          <<"G0299", "Skilled nursing services, home health", 6500>>,
          <<"G0300", "Skilled nursing services, maintenance", 5500>> >>,
     provider_names |->
       << <<"MARTINEZ", "ELENA", "RN">>, <<"THOMPSON", "GRACE", "RN">>,
          <<"WRIGHT", "JAMES", "LPN">>, <<"BELL", "SANDRA", "RN">>,
          <<"COLE", "PATRICK", "PT">> >>,
     facility_names |->
       << "HOME CARE NURSING SERVICES", "COMPLEX CARE SOLUTIONS",
          "VISITING HEALTH PROFESSIONALS", "POST ACUTE CARE NETWORK",
          "HOME REHABILITATION SERVICES", "CATASTROPHIC CARE MANAGEMENT" >>,
     icd10_codes |->
       << <<"S7200XA", "Fracture of head of femur, initial">>,
          <<"G8929", "Other chronic pain">>,
          <<"S1200XA", "Fracture of first cervical vertebra, initial">>,
          <<"S3210XA", "Fracture of body of sternum, initial">>,
          <<"T8430XA", "Infection following procedure, initial">>,
          <<"S0600XA", "Concussion w/o loss of consciousness, initial">>,
          <<"L97519", "Non-pressure chronic ulcer of lower leg">>,
          <<"M5416", "Radiculopathy, lumbar region">> >>,
     auth_service_types |->
       << <<"HH", "Home Health", "3">>, <<"CC", "Complex Care", "3">> >>,
     place_of_service |->
       << <<"12", "Home">> >>]

LOB_DENTAL ==
    [name |-> "Dental",
     procedure_codes |->
       << <<"D0120", "Periodic oral evaluation", 4500>>,
          <<"D0140", "Limited oral evaluation, problem focused", 6500>>,
          <<"D0150", "Comprehensive oral evaluation", 8500>>,
          <<"D0220", "Intraoral periapical first radiograph", 2500>>,
          <<"D0230", "Intraoral periapical each additional", 1800>>,
          <<"D0274", "Bitewing radiographs four images", 5500>>,
          <<"D0330", "Panoramic radiograph", 9500>>,
          <<"D2140", "Amalgam restoration one surface", 12500>>,
          <<"D2150", "Amalgam restoration two surfaces", 15500>>,
          <<"D2330", "Resin composite one surface anterior", 14500>>,
          <<"D2740", "Crown porcelain/ceramic substrate", 85000>>,
          <<"D2750", "Crown porcelain fused to metal", 79500>>,
          <<"D3310", "Root canal anterior tooth", 47500>>,
          <<"D3320", "Root canal premolar tooth", 57500>>,
          <<"D3330", "Root canal molar tooth", 72500>>,
          <<"D7140", "Extraction erupted tooth", 13500>>,
          <<"D7210", "Surgical extraction", 22500>>,
          <<"D7240", "Surgical extraction impacted tooth", 32500>> >>,
     provider_names |->
       << <<"PARK", "ANDREW", "DDS">>, <<"SHAW", "MELISSA", "DMD">>,
          <<"RIVERA", "DANIEL", "DDS">>, <<"TRAN", "LINDA", "DMD">>,
          <<"WOOD", "CHARLES", "DDS">> >>,
     facility_names |->
       << "ONE CALL DENTAL NETWORK", "WORKERS COMP DENTAL CENTER",
          "OCCUPATIONAL DENTAL ASSOCIATES", "PREMIER DENTAL CARE WC",
          "INDUSTRIAL DENTAL CLINIC" >>,
     icd10_codes |->
       << <<"S0250XA", "Fracture of tooth, initial encounter">>,
          <<"K0889", "Other specified disorders of teeth">>,
          <<"K0461", "Dental caries on pit and fissure surface">>,
          <<"K0501", "Dental caries on root surface">>,
          <<"S0351XA", "Fracture of alveolar process of mandible, initial">>,
          <<"K0830", "Enamel erosion, unspecified">>,
          <<"K0400", "Dental caries, enamel limited">> >>,
     auth_service_types |->
       << <<"DN", "Dental", "1">> >>,
     place_of_service |->
       << <<"11", "Office">> >>]

LOB_TRANSPORT ==
    [name |-> "Transportation",
     procedure_codes |->
       << <<"A0100", "Non-emergency ambulance transport", 35000>>,
          <<"A0120", "Non-emergency wheelchair van", 12500>>,
          <<"A0130", "Non-emergency ambulance, wheelchair", 17500>>,
          <<"A0160", "Non-emergency stretcher transport", 22500>>,
          <<"A0170", "Transport ancillary, parking fees", 1500>>,
          <<"A0180", "Transport ancillary, tolls", 1000>>,
          <<"A0190", "Transport ancillary, per mile", 250>>,
          <<"A0200", "Transport ancillary, waiting time", 3500>>,
          <<"T2003", "Non-emergency transport, encounter/trip", 6500>>,
          <<"T2005", "Non-emergency transport, per mile", 200>>,
          <<"S0215", "Non-emergency transport, mileage per mile", 175>> >>,
     provider_names |->
       << <<"TRANSMED", "SERVICES", "EMT">>, <<"PREMIER", "TRANSPORT", "EMT">>,
          <<"METRO", "MEDICAL", "EMT">>, <<"NATIONAL", "TRANSPORT", "EMT">> >>,
     facility_names |->
       << "MEDICAL TRANSPORT SERVICES", "NON EMERGENCY TRANSPORT LLC",
          "WORKERS COMP TRANSPORTATION", "METRO MEDICAL TRANSPORT",
          "ACCESSIBLE TRANSIT SERVICES" >>,
     icd10_codes |->
       << <<"Z0289", "Encounter for other administrative examinations">>,
          <<"M5416", "Radiculopathy, lumbar region">>, <<"G8929", "Other chronic pain">>,
          <<"S8350XA", "Sprain of knee, unspecified, initial">>,
          <<"M75110", "Rotator cuff tear, right shoulder">> >>,
     auth_service_types |->
       << <<"TR", "Transportation", "1">> >>,
     place_of_service |->
       << <<"99", "Other Place of Service">> >>]

LOB_LANGUAGE ==
    [name |-> "Language / Interpreter Services",
     procedure_codes |->
       << <<"T1013", "Interpreter services, per 15 minutes", 2500>>,
          <<"T1012", "Interpreter services, per encounter", 8500>>,
          <<"S9542", "Home infusion, sign language", 9500>>,
          <<"T2048", "Behavioral health, translation", 4500>> >>,
     provider_names |->
       << <<"LINGUISTIC", "SERVICES", "CI">>, <<"CERTIFIED", "INTERPRETERS", "CI">>,
          <<"MULTILINGUAL", "GROUP", "CI">> >>,
     facility_names |->
       << "LANGUAGE LINE SOLUTIONS", "CERTIFIED INTERPRETER SERVICES",
          "WORKERS COMP LANGUAGE SERVICES", "MULTILINGUAL COMMUNICATION SVCS" >>,
     icd10_codes |->
       << <<"Z0289", "Encounter for other administrative examinations">>,
          <<"M5416", "Radiculopathy, lumbar region">>, <<"G8929", "Other chronic pain">> >>,
     auth_service_types |->
       << <<"LS", "Language Services", "1">> >>,
     place_of_service |->
       << <<"11", "Office">>, <<"22", "Outpatient Hospital">> >>]

\* the keys of LOB_PROFILES, in table order
LOB_KEYS == <<"PT", "OT", "DC", "DX", "DME", "HH", "DENTAL", "TRANSPORT", "LANGUAGE">>

LOB_PROFILES ==
    ("PT" :> LOB_PT) @@ ("OT" :> LOB_OT) @@ ("DC" :> LOB_DC) @@ ("DX" :> LOB_DX) @@ ("DME" :> LOB_DME) @@
    ("HH" :> LOB_HH) @@ ("DENTAL" :> LOB_DENTAL) @@ ("TRANSPORT" :> LOB_TRANSPORT) @@ ("LANGUAGE" :> LOB_LANGUAGE)

\* the six active_* variables; each names the table its list comes from:
\* "DEFAULT" for the module-level pools, else a key of LOB_PROFILES
ActiveFields ==
    {"procedure_codes", "provider_names", "facility_names", "icd10_codes",
     "auth_service_types", "place_of_service"}

\* all six pools taken from one table
ActiveFrom(table) == [f \in ActiveFields |-> table]

\* the table each active_* variable refers to at import time
DefaultActive == ActiveFrom("DEFAULT")

\* the list an active_* variable refers to
Pool(act, field) ==
    IF act[field] # "DEFAULT" THEN LOB_PROFILES[act[field]][field]
    ELSE CASE field = "procedure_codes" -> PROCEDURE_CODES
           [] field = "provider_names" -> PROVIDER_NAMES
           [] field = "facility_names" -> FACILITY_NAMES
           [] field = "icd10_codes" -> ICD10_CODES
           [] field = "auth_service_types" -> AUTH_SERVICE_TYPES
           [] field = "place_of_service" -> PLACE_OF_SERVICE

---------------------------------------------------------------------------
(* EDIBuilder *)

\* EDIBuilder with a seeded fault: the segment list belongs to the class, so
\* a new builder starts with what an earlier one accumulated
EDIBuilder_class_list(element_sep, segment_term, sub_element_sep) ==
    [element_sep |-> element_sep, segment_term |-> segment_term,
     sub_element_sep |-> sub_element_sep,
     segments |-> <<"ISA" \o element_sep \o "00" \o segment_term>>]

EDIBuilder(element_sep, segment_term, sub_element_sep) ==
    [element_sep |-> element_sep, segment_term |-> segment_term,
     sub_element_sep |-> sub_element_sep, segments |-> <<>>]

\* no EDIBuilder exists
NoBuilder ==
    [element_sep |-> "", segment_term |-> "", sub_element_sep |-> "", segments |-> <<>>]

\* the text EDIBuilder.add appends for (segment_id, *elements)
\* encode with a seeded fault: empty elements are left out
encode_skip_empty(b, segment_id, elements) ==
    LET NonEmpty(e) == e # ""
        parts == <<segment_id>> \o SelectSeq(elements, NonEmpty)
    IN Join(parts, b.element_sep) \o b.segment_term

encode(b, segment_id, elements) ==
    LET parts == <<segment_id>> \o elements
    IN Join(parts, b.element_sep) \o b.segment_term

\* add with a seeded fault: the new segment replaces the list
add_overwrite(b, segment_id, elements) ==
    [b EXCEPT !.segments = <<encode(b, segment_id, elements)>>]

\* EDIBuilder.add(segment_id, *elements)
add(b, segment_id, elements) ==
    [b EXCEPT !.segments = Append(@, encode(b, segment_id, elements))]

\* EDIBuilder.segment_count()
segment_count(b) == Len(b.segments)

\* render with a seeded fault: pretty lines end in carriage return, line feed
render_crlf(b, pretty) ==
    LET sep == IF pretty THEN "\r\n" ELSE ""
    IN Join(b.segments, sep)

\* EDIBuilder.render(pretty)
render(b, pretty) ==
    LET sep == IF pretty THEN "\n" ELSE ""
    IN Join(b.segments, sep)

---------------------------------------------------------------------------
(* Envelope *)

\* TXN_META with a seeded fault: the entry of the 999 is missing
TXN_META_without_999 ==
    ("837P" :> <<"HC", "837", "005010X222A1">>) @@
    ("835" :> <<"HP", "835", "005010X221A1">>) @@
    ("270" :> <<"HS", "270", "005010X279A1">>) @@
    ("271" :> <<"HB", "271", "005010X279A1">>) @@
    ("278" :> <<"HI", "278", "005010X217">>)

\* transaction type -> (GS functional ID code, ST transaction set ID, GS version)
TXN_META ==
    ("837P" :> <<"HC", "837", "005010X222A1">>) @@
    ("835" :> <<"HP", "835", "005010X221A1">>) @@
    ("270" :> <<"HS", "270", "005010X279A1">>) @@
    ("271" :> <<"HB", "271", "005010X279A1">>) @@
    ("278" :> <<"HI", "278", "005010X217">>) @@
    ("999" :> <<"FA", "999", "005010X231A1">>)

\* add_all with a seeded fault: the body is placed ahead of what the builder holds
add_all_first(b, transaction_segments) ==
    [b EXCEPT !.segments =
        [i \in 1 .. Len(transaction_segments) |->
            encode(b, Head(transaction_segments[i]), Tail(transaction_segments[i]))] \o @]

\* add_all with a seeded fault: the body is emitted last entry first
add_all_reversed(b, transaction_segments) ==
    [b EXCEPT !.segments = @ \o
        [i \in 1 .. Len(transaction_segments) |->
            LET seg == transaction_segments[Len(transaction_segments) + 1 - i]
            IN encode(b, Head(seg), Tail(seg))]]

\* the body loop of build_envelope: builder.add for each entry, in order
add_all(b, transaction_segments) ==
    [b EXCEPT !.segments = @ \o
        [i \in 1 .. Len(transaction_segments) |->
            encode(b, Head(transaction_segments[i]), Tail(transaction_segments[i]))]]

\* se_count with a seeded fault: SE itself is not counted
se_count_without_se(transaction_segments) == Len(transaction_segments) + 1

\* se_count with a seeded fault: neither ST nor SE is counted
se_count_body_only(transaction_segments) == Len(transaction_segments)

\* the segment count build_envelope writes into SE
se_count(transaction_segments) == Len(transaction_segments) + 2

\* the ISA, GS and ST segments of build_envelope
envelope_header(b, sender_id, receiver_id, meta, isa_control, gs_control, st_control, now) ==
    LET func_code == meta[1]
        st_id == meta[2]
        gs_version == meta[3]
        b1 == add(b, "ISA",
                  <<"00", pad("", 10, " "), "00", pad("", 10, " "),
                    "ZZ", pad(sender_id, 15, " "), "ZZ", pad(receiver_id, 15, " "),
                    date_str(now, "%y%m%d"), time_str(now), "^", "00501",
                    isa_control, "0", "T", b.sub_element_sep>>)
        b2 == add(b1, "GS",
                  <<func_code, sender_id, receiver_id,
                    date_str(now, "%Y%m%d"), time_str(now),
                    gs_control, "X", gs_version>>)
    IN add(b2, "ST", <<st_id, st_control, gs_version>>)

\* envelope_trailer with a seeded fault: SE and GE carry each other's control number
envelope_trailer_swapped(b, transaction_segments, isa_control, gs_control, st_control) ==
    LET b5 == add(b, "SE", <<ToStr(se_count(transaction_segments)), gs_control>>)
        b6 == add(b5, "GE", <<"1", st_control>>)
    IN add(b6, "IEA", <<"1", isa_control>>)

\* envelope_trailer with a seeded fault: GE carries the segment count
envelope_trailer_counts(b, transaction_segments, isa_control, gs_control, st_control) ==
    LET b5 == add(b, "SE", <<ToStr(se_count(transaction_segments)), st_control>>)
        b6 == add(b5, "GE", <<ToStr(se_count(transaction_segments)), gs_control>>)
    IN add(b6, "IEA", <<"1", isa_control>>)

\* the SE, GE and IEA segments of build_envelope
envelope_trailer(b, transaction_segments, isa_control, gs_control, st_control) ==
    LET b5 == add(b, "SE", <<ToStr(se_count(transaction_segments)), st_control>>)
        b6 == add(b5, "GE", <<"1", gs_control>>)
    IN add(b6, "IEA", <<"1", isa_control>>)

\* build_envelope with a seeded fault: ISA is emitted before the table lookup
build_envelope_late_lookup(b, sender_id, receiver_id, txn_type, transaction_segments, r, now) ==
    LET isa_control == control_number(Raw(r, 0), 9)
        gs_control == control_number(Raw(r, 1), 4)
        st_control == zfill(control_number(Raw(r, 2), 4), 4)
        b1 == add(b, "ISA",
                  <<"00", pad("", 10, " "), "00", pad("", 10, " "),
                    "ZZ", pad(sender_id, 15, " "), "ZZ", pad(receiver_id, 15, " "),
                    date_str(now, "%y%m%d"), time_str(now), "^", "00501",
                    isa_control, "0", "T", b.sub_element_sep>>)
    IN IF txn_type \notin DOMAIN TXN_META
       THEN [builder |-> b1, rng |-> Advance(r, 3), raised |-> "KeyError"]
       ELSE [builder |->
                envelope_trailer(
                    add_all(envelope_header(b, sender_id, receiver_id, TXN_META[txn_type],
                                            isa_control, gs_control, st_control, now),
                            transaction_segments),
                    transaction_segments, isa_control, gs_control, st_control),
             rng |-> Advance(r, 3), raised |-> ""]

\* build_envelope(builder, sender_id, receiver_id, txn_type, transaction_segments)
\* with the random source in state r and datetime.now() = now.  The three
\* control numbers are drawn before the table lookup, which raises KeyError
\* for an unknown txn_type before the first builder.add.
build_envelope(b, sender_id, receiver_id, txn_type, transaction_segments, r, now) ==
    LET isa_control == control_number(Raw(r, 0), 9)
        gs_control == control_number(Raw(r, 1), 4)
        st_control == zfill(control_number(Raw(r, 2), 4), 4)
    IN IF txn_type \notin DOMAIN TXN_META
       THEN [builder |-> b, rng |-> Advance(r, 3), raised |-> "KeyError"]
       ELSE [builder |->
                envelope_trailer(
                    add_all(envelope_header(b, sender_id, receiver_id, TXN_META[txn_type],
                                            isa_control, gs_control, st_control, now),
                            transaction_segments),
                    transaction_segments, isa_control, gs_control, st_control),
             rng |-> Advance(r, 3), raised |-> ""]

---------------------------------------------------------------------------
(* Transaction generators.  A generator is called with the count hint       *)
(* (None, or <<n>> for the integer n), the state r of the random source,    *)
(* the clock reading now and the active pools act; its draws are numbered   *)
(* from 0 in the order of the random calls of the code, and it returns      *)
(* [segments, sender_id, receiver_id, draws].                               *)

\* the count hint that is absent
None == <<>>

\* Python truthiness of the count hint in "num_claims or random.randint(..)"
Falsy(num_claims) == num_claims = None \/ num_claims[1] = 0

\* "num_claims or random.randint(lo, hi)"
count_or_random(num_claims, r, lo, hi) ==
    IF Falsy(num_claims) THEN randint(Raw(r, 0), lo, hi) ELSE num_claims[1]

\* the draws "num_claims or random.randint(..)" consumes
count_draws(num_claims) == IF Falsy(num_claims) THEN 1 ELSE 0

\* random.random() < percent / 100
below(raw, percent) == raw * 100 < percent * (RngMod - 1)

\* random.uniform(lo, hi) on a scale of whole units
uniform(raw, lo, hi) == lo + (raw * (hi - lo)) \div (RngMod - 1)

RECURSIVE SumPrice(_)
SumPrice(procedures) ==
    IF Len(procedures) = 0 THEN 0 ELSE Head(procedures)[3] + SumPrice(Tail(procedures))

RECURSIVE Gcd(_, _)
Gcd(a, b) == IF b = 0 THEN a ELSE Gcd(b, a % b)

\* round(a * b / c) for amounts in cents
MulDivRound(a, b, c) ==
    LET g == Gcd(a, c)
    IN (2 * (a \div g) * b + (c \div g)) \div (2 * (c \div g))

\* hi_elements with a seeded fault: the qualifier and the code are joined by
\* the element separator
hi_elements_star(diag_codes) ==
    [i \in 1 .. Len(diag_codes) |->
        IF i = 1 THEN "BK*" \o diag_codes[i][1] ELSE "BF*" \o diag_codes[i][1]]

\* ["BK:" + diag_codes[0][0]] + ["BF:" + code for the rest]
hi_elements(diag_codes) ==
    [i \in 1 .. Len(diag_codes) |->
        IF i = 1 THEN "BK:" \o diag_codes[i][1] ELSE "BF:" \o diag_codes[i][1]]

\* one pass of the claim loop of generate_837p, its draws starting at p
claim_837p(st, r, p, now, act, payer) ==
    LET patient == choice(Raw(r, p), PATIENT_NAMES)
        patient_member_id == member_id(Raw(r, p + 1))
        patient_addr == choice(Raw(r, p + 2), ADDRESSES)
        pos_code == choice(Raw(r, p + 3), Pool(act, "place_of_service"))[1]
        hl_id == st.hl_id + 1
        claim_ctrl == claim_id(Raw(r, p + 4))
        diag_codes == sample(Raw(r, p + 6), Pool(act, "icd10_codes"),
                             Min(randint(Raw(r, p + 5), 1, 3), Len(Pool(act, "icd10_codes"))))
        service_date == PlusDays(now, -randint(Raw(r, p + 7), 1, 30))
        num_svc_lines == Min(randint(Raw(r, p + 8), 1, 4), Len(Pool(act, "procedure_codes")))
        procedures == sample(Raw(r, p + 9), Pool(act, "procedure_codes"), num_svc_lines)
        total_charge == SumPrice(procedures)
        wc_claim == "WC" \o choices(Raw(r, p + 10), DIGITS, 10)
        lines == [k \in 1 .. 3 * Len(procedures) |->
                    LET svc_idx == ((k - 1) \div 3) + 1
                        proc == procedures[svc_idx]
                    IN CASE k % 3 = 1 -> <<"LX", ToStr(svc_idx)>>
                         [] k % 3 = 2 -> <<"SV1", "HC:" \o proc[1], Money(proc[3]), "UN",
                                           ToStr(1), pos_code, "", ToStr(svc_idx)>>
                         [] k % 3 = 0 -> <<"DTP", "472", "D8", date_str(service_date, "%Y%m%d")>>]
    IN [hl_id |-> hl_id,
        segments |-> st.segments \o
          << <<"HL", ToStr(hl_id), "1", "22", "0">>,
             <<"SBR", "P", "", "", "", "", "", "", "", "WC">>,
             <<"NM1", "IL", "1", patient[1], patient[2], patient[3], "", "", "MI",
               patient_member_id>>,
             <<"N3", patient_addr[1]>>,
             <<"N4", patient_addr[2], patient_addr[3], patient_addr[4]>>,
             <<"DMG", "D8", patient[5], patient[4]>>,
             <<"NM1", "PR", "2", payer[1], "", "", "", "", "PI", payer[2]>>,
             <<"CLM", claim_ctrl, Money(total_charge), "", "", pos_code \o ":B:1",
               "Y", "A", "Y", "I">>,
             <<"DTP", "431", "D8", date_str(service_date, "%Y%m%d")>>,
             <<"REF", "D9", claim_ctrl>>,
             <<"REF", "Y4", wc_claim>>,
             <<"HI">> \o hi_elements(diag_codes) >> \o lines]

\* for claim_num in range(num_claims)
RECURSIVE loop_837p(_, _, _, _, _, _, _, _)
loop_837p(claim_num, num_claims, st, r, p, now, act, payer) ==
    IF claim_num >= num_claims THEN st
    ELSE loop_837p(claim_num + 1, num_claims, claim_837p(st, r, p, now, act, payer),
                   r, p + 11, now, act, payer)

generate_837p(hint, r, now, act) ==
    LET num_claims == count_or_random(hint, r, 3, 10)
        p == count_draws(hint)
        submitter_name == choice(Raw(r, p), Pool(act, "facility_names"))
        payer == choice(Raw(r, p + 1), PAYER_NAMES)
        bht == choices(Raw(r, p + 3), DIGITS, 8)
        submitter_id == choices(Raw(r, p + 4), ASCII_UPPERCASE \o DIGITS, 6)
        phone == "555" \o ToStr(randint(Raw(r, p + 5), 1000000, 9999999))
        billing_provider == choice(Raw(r, p + 6), Pool(act, "provider_names"))
        billing_npi == npi(Raw(r, p + 7))
        billing_tin == tax_id(Raw(r, p + 8))
        billing_addr == choice(Raw(r, p + 9), ADDRESSES)
        head ==
          << <<"BHT", "0019", "00", bht, date_str(now, "%Y%m%d"), time_str(now), "CH">>,
             <<"NM1", "41", "2", submitter_name, "", "", "", "", "46", submitter_id>>,
             <<"PER", "IC", "EDI DEPARTMENT", "TE", phone>>,
             <<"NM1", "40", "2", payer[1], "", "", "", "", "46", payer[2]>>,
             <<"HL", ToStr(1), "", "20", "1">>,
             <<"PRV", "BI", "PXC", "207X00000X">>,
             <<"NM1", "85", "1", billing_provider[1], billing_provider[2],
               billing_provider[3], "", "", "XX", billing_npi>>,
             <<"N3", billing_addr[1]>>,
             <<"N4", billing_addr[2], billing_addr[3], billing_addr[4]>>,
             <<"REF", "EI", billing_tin>> >>
        st == loop_837p(0, num_claims, [hl_id |-> 1, segments |-> head],
                        r, p + 10, now, act, payer)
    IN [segments |-> st.segments,
        sender_id |-> Prefix(RemoveSpaces(submitter_name), 15),
        receiver_id |-> Prefix(RemoveSpaces(payer[1]), 15),
        draws |-> p + 10 + 11 * Max(num_claims, 0)]

\* one pass of the claim loop of generate_835, its draws starting at p
claim_835(st, r, p, pay_date, act) ==
    LET patient == choice(Raw(r, p), PATIENT_NAMES)
        clm_ctrl == claim_id(Raw(r, p + 1))
        num_lines == Min(randint(Raw(r, p + 2), 1, 3), Len(Pool(act, "procedure_codes")))
        procedures == sample(Raw(r, p + 3), Pool(act, "procedure_codes"), num_lines)
        service_date == PlusDays(pay_date, -randint(Raw(r, p + 4), 15, 60))
        total_charged == SumPrice(procedures)
        allowed == (total_charged * uniform(Raw(r, p + 5), 65, 90) + 50) \div 100
        adjustment == total_charged - allowed
        claim_payment == allowed
        svc(proc) ==
            LET charge == proc[3]
                paid == MulDivRound(charge, claim_payment, total_charged)
                line_adj == charge - paid
            IN << <<"SVC", "HC:" \o proc[1], Money(charge), Money(paid), "", "1">>,
                  <<"DTM", "472", date_str(service_date, "%Y%m%d")>> >>
               \o (IF line_adj > 0 THEN << <<"CAS", "CO", "45", Money(line_adj)>> >> ELSE <<>>)
               \o << <<"AMT", "B6", Money(paid)>> >>
        RECURSIVE svcs(_)
        svcs(k) == IF k > Len(procedures) THEN <<>> ELSE svc(procedures[k]) \o svcs(k + 1)
    IN [total_payment |-> st.total_payment + claim_payment,
        segments |-> st.segments \o
          << <<"CLP", clm_ctrl, "1", Money(total_charged), Money(claim_payment), "", "WC",
               choices(Raw(r, p + 6), DIGITS, 14), "11">>,
             <<"CAS", "CO", "45", Money(adjustment)>>,
             <<"NM1", "QC", "1", patient[1], patient[2], patient[3], "", "", "MI",
               member_id(Raw(r, p + 7))>>,
             <<"DTM", "232", date_str(service_date, "%Y%m%d")>>,
             <<"DTM", "233",
               date_str(PlusDays(service_date, randint(Raw(r, p + 8), 0, 5)), "%Y%m%d")>> >>
          \o svcs(1)]

\* for _ in range(num_claims)
RECURSIVE loop_835(_, _, _, _, _, _, _)
loop_835(i, num_claims, st, r, p, pay_date, act) ==
    IF i >= num_claims THEN st
    ELSE loop_835(i + 1, num_claims, claim_835(st, r, p, pay_date, act),
                  r, p + 9, pay_date, act)

\* segments.append(None): the slot reserved for BPR
PLACEHOLDER == <<>>

\* finish_835 with a seeded fault: the reserved slot is dropped and the BPR
\* segment is appended at the end
finish_835_appended(st, plb_adj, bpr_idx, payer, payee_npi, check_num, pay_date) ==
    LET with_plb ==
            IF plb_adj # 0
            THEN Append(st.segments,
                        <<"PLB", payee_npi, date_str(pay_date, "%Y%m%d"), "CV:CP",
                          Money(plb_adj)>>)
            ELSE st.segments
        total_payment == IF plb_adj # 0 THEN st.total_payment + plb_adj ELSE st.total_payment
    IN Append(Tail(with_plb),
              <<"BPR", "C", Money(total_payment), "C", "ACH", "CTX", "01", "999999992",
                "DA", "123456", "1" \o payer[2], "", "01", "999988880", "DA",
                check_num, date_str(pay_date, "%Y%m%d")>>)

\* finish_835 with a seeded fault: the PLB adjustment is left out of the
\* total
finish_835_without_plb(st, plb_adj, bpr_idx, payer, payee_npi, check_num, pay_date) ==
    LET with_plb ==
            IF plb_adj # 0
            THEN Append(st.segments,
                        <<"PLB", payee_npi, date_str(pay_date, "%Y%m%d"), "CV:CP",
                          Money(plb_adj)>>)
            ELSE st.segments
        bpr == <<"BPR", "C", Money(st.total_payment), "C", "ACH", "CTX", "01", "999999992",
                 "DA", "123456", "1" \o payer[2], "", "01", "999988880", "DA",
                 check_num, date_str(pay_date, "%Y%m%d")>>
    IN [with_plb EXCEPT ![bpr_idx + 1] = bpr]

\* the end of generate_835, after the claim loop left st: the optional PLB
\* segment, then the BPR segment written into the reserved slot
finish_835(st, plb_adj, bpr_idx, payer, payee_npi, check_num, pay_date) ==
    LET with_plb ==
            IF plb_adj # 0
            THEN Append(st.segments,
                        <<"PLB", payee_npi, date_str(pay_date, "%Y%m%d"), "CV:CP",
                          Money(plb_adj)>>)
            ELSE st.segments
        total_payment == IF plb_adj # 0 THEN st.total_payment + plb_adj ELSE st.total_payment
        bpr == <<"BPR", "C", Money(total_payment), "C", "ACH", "CTX", "01", "999999992",
                 "DA", "123456", "1" \o payer[2], "", "01", "999988880", "DA",
                 check_num, date_str(pay_date, "%Y%m%d")>>
    IN [with_plb EXCEPT ![bpr_idx + 1] = bpr]

generate_835(hint, r, now, act) ==
    LET num_claims == count_or_random(hint, r, 5, 15)
        p == count_draws(hint)
        payer == choice(Raw(r, p), PAYER_NAMES)
        payer_addr == choice(Raw(r, p + 1), ADDRESSES)
        check_num == choices(Raw(r, p + 2), DIGITS, 8)
        pay_date == now
        bpr_idx == 0
        phone == "800" \o ToStr(randint(Raw(r, p + 3), 1000000, 9999999))
        payee_facility == choice(Raw(r, p + 4), Pool(act, "facility_names"))
        payee_npi == npi(Raw(r, p + 5))
        payee_addr == choice(Raw(r, p + 6), ADDRESSES)
        head ==
          << PLACEHOLDER,
             <<"TRN", "1", check_num, "1" \o payer[2]>>,
             <<"DTM", "405", date_str(pay_date, "%Y%m%d")>>,
             <<"N1", "PR", payer[1]>>,
             <<"N3", payer_addr[1]>>,
             <<"N4", payer_addr[2], payer_addr[3], payer_addr[4]>>,
             <<"REF", "2U", payer[2]>>,
             <<"PER", "BL", "CLAIMS DEPT", "TE", phone>>,
             <<"N1", "PE", payee_facility, "XX", payee_npi>>,
             <<"N3", payee_addr[1]>>,
             <<"N4", payee_addr[2], payee_addr[3], payee_addr[4]>>,
             <<"REF", "TJ", tax_id(Raw(r, p + 7))>> >>
        q == p + 8 + 9 * Max(num_claims, 0)
        plb_adj == uniform(Raw(r, q), -500, 0)
    IN [segments |->
            finish_835(loop_835(0, num_claims, [total_payment |-> 0, segments |-> head],
                                r, p + 8, pay_date, act),
                       plb_adj, bpr_idx, payer, payee_npi, check_num, pay_date),
        sender_id |-> Prefix(RemoveSpaces(payer[1]), 15),
        receiver_id |-> Prefix(RemoveSpaces(payee_facility), 15),
        draws |-> q + 1]

SERVICE_TYPE_POOL ==
    <<"30", "1", "33", "35", "47", "86", "88", "98", "AL", "MH", "UC", "AJ", "AK", "A6">>

\* subscriber_270 with a seeded fault: hl_id is not advanced
subscriber_270_same_id(st, r, p, now, payer, provider_hl) ==
    LET patient == choice(Raw(r, p), PATIENT_NAMES)
        hl_id == st.hl_id
        trace_num == choices(Raw(r, p + 1), DIGITS, 12)
        svc_date == PlusDays(now, -randint(Raw(r, p + 3), 0, 14))
        num_eq == randint(Raw(r, p + 4), 1, 4)
        codes == sample(Raw(r, p + 5), SERVICE_TYPE_POOL, num_eq)
    IN [hl_id |-> hl_id,
        segments |-> st.segments \o
          << <<"HL", ToStr(hl_id), ToStr(provider_hl), "22", "0">>,
             <<"TRN", "1", trace_num, "9" \o payer[2]>>,
             <<"NM1", "IL", "1", patient[1], patient[2], patient[3], "", "", "MI",
               member_id(Raw(r, p + 2))>>,
             <<"DMG", "D8", patient[5]>>,
             <<"DTP", "291", "D8", date_str(svc_date, "%Y%m%d")>> >>
          \o [k \in 1 .. num_eq |-> <<"EQ", codes[k]>>]]

\* one pass of the subscriber loop of generate_270, its draws starting at p
subscriber_270(st, r, p, now, payer, provider_hl) ==
    LET patient == choice(Raw(r, p), PATIENT_NAMES)
        hl_id == st.hl_id + 1
        trace_num == choices(Raw(r, p + 1), DIGITS, 12)
        svc_date == PlusDays(now, -randint(Raw(r, p + 3), 0, 14))
        num_eq == randint(Raw(r, p + 4), 1, 4)
        codes == sample(Raw(r, p + 5), SERVICE_TYPE_POOL, num_eq)
    IN [hl_id |-> hl_id,
        segments |-> st.segments \o
          << <<"HL", ToStr(hl_id), ToStr(provider_hl), "22", "0">>,
             <<"TRN", "1", trace_num, "9" \o payer[2]>>,
             <<"NM1", "IL", "1", patient[1], patient[2], patient[3], "", "", "MI",
               member_id(Raw(r, p + 2))>>,
             <<"DMG", "D8", patient[5]>>,
             <<"DTP", "291", "D8", date_str(svc_date, "%Y%m%d")>> >>
          \o [k \in 1 .. num_eq |-> <<"EQ", codes[k]>>]]

\* for _ in range(num_subscribers)
RECURSIVE loop_270(_, _, _, _, _, _, _, _)
loop_270(i, num_subscribers, st, r, p, now, payer, provider_hl) ==
    IF i >= num_subscribers THEN st
    ELSE loop_270(i + 1, num_subscribers, subscriber_270(st, r, p, now, payer, provider_hl),
                  r, p + 6, now, payer, provider_hl)

generate_270(hint, r, now, act) ==
    LET num_subscribers == count_or_random(hint, r, 3, 10)
        p == count_draws(hint)
        payer == choice(Raw(r, p), PAYER_NAMES)
        facility == choice(Raw(r, p + 1), Pool(act, "facility_names"))
        provider_npi == npi(Raw(r, p + 2))
        bht == choices(Raw(r, p + 3), DIGITS, 8)
        payer_hl == 0 + 1
        provider_hl == payer_hl + 1
        head ==
          << <<"BHT", "0022", "13", bht, date_str(now, "%Y%m%d"), time_str(now)>>,
             <<"HL", ToStr(payer_hl), "", "20", "1">>,
             <<"NM1", "PR", "2", payer[1], "", "", "", "", "PI", payer[2]>>,
             <<"HL", ToStr(provider_hl), ToStr(payer_hl), "21", "1">>,
             <<"NM1", "1P", "2", facility, "", "", "", "", "XX", provider_npi>>,
             <<"REF", "EI", tax_id(Raw(r, p + 4))>> >>
        st == loop_270(0, num_subscribers, [hl_id |-> provider_hl, segments |-> head],
                       r, p + 5, now, payer, provider_hl)
    IN [segments |-> st.segments,
        sender_id |-> Prefix(RemoveSpaces(facility), 15),
        receiver_id |-> Prefix(RemoveSpaces(payer[1]), 15),
        draws |-> p + 5 + 6 * Max(num_subscribers, 0)]

PLAN_NAMES ==
    <<"WC PREFERRED PLAN", "WORKERS COMP STANDARD", "WC MANAGED CARE GOLD",
      "EMPLOYERS WC PLAN A", "WC COMPREHENSIVE", "WC SELECT NETWORK">>

\* (service_type_code, description, info_type, amount_qualifier)
BENEFIT_DETAILS ==
    << <<"1", "Medical Care", "B", "27">>, <<"33", "Chiropractic", "B", "27">>,
       <<"35", "Dental Care", "B", "27">>, <<"47", "Hospital", "B", "29">>,
       <<"86", "Emergency", "B", "27">>, <<"88", "Pharmacy", "B", "27">>,
       <<"98", "Physician Visit", "B", "27">>, <<"AL", "Vision", "B", "27">>,
       <<"MH", "Mental Health", "B", "27">>, <<"UC", "Urgent Care", "B", "27">>,
       <<"A4", "Psychiatric", "B", "27">>, <<"A6", "Psychotherapy", "B", "27">>,
       <<"AJ", "Alcoholism", "F", "">>, <<"AK", "Drug Addiction", "F", "">>,
       <<"PT", "Physical Therapy", "B", "27">>,
       <<"OT", "Occupational Therapy", "B", "27">> >>

\* the EB segments of one selected benefit, its two draws at p and p + 1
benefit_271(b, r, p, plan_name) ==
    LET copay == choice(Raw(r, p), <<10, 15, 20, 25, 30, 35, 40, 50>>)
        max_visits == choice(Raw(r, p + 1), <<12, 20, 24, 30, 36, 52, 60>>)
    IN (IF b[3] = "B"
        THEN << <<"EB", "B", "IND", b[1], "HM", plan_name, b[4], ToStr(copay),
                  "", "", "", "", "Y">> >>
        ELSE IF b[3] = "F"
        THEN << <<"EB", "F", "IND", b[1], "HM", plan_name>> >>
        ELSE <<>>)
       \o (IF b[1] \in {"PT", "OT", "33"}
           THEN << <<"EB", "F", "IND", b[1], "HM", plan_name, "27", "", "",
                     ToStr(max_visits), "23">> >>
           ELSE <<>>)

RECURSIVE benefits_271(_, _, _, _, _)
benefits_271(k, selected_benefits, r, p, plan_name) ==
    IF k > Len(selected_benefits) THEN <<>>
    ELSE benefit_271(selected_benefits[k], r, p, plan_name)
         \o benefits_271(k + 1, selected_benefits, r, p + 2, plan_name)

\* one pass of the subscriber loop of generate_271, its draws starting at p
subscriber_271(st, r, p, now, payer, provider_hl) ==
    LET patient == choice(Raw(r, p), PATIENT_NAMES)
        patient_addr == choice(Raw(r, p + 1), ADDRESSES)
        pat_member == member_id(Raw(r, p + 2))
        plan_name == choice(Raw(r, p + 3), PLAN_NAMES)
        hl_id == st.hl_id + 1
        trace_num == choices(Raw(r, p + 4), DIGITS, 12)
        eff_date == PlusDays(now, -randint(Raw(r, p + 5), 30, 730))
        is_active == below(Raw(r, p + 6), 85)
        num_benefits == randint(Raw(r, p + 7), 4, 10)
        selected_benefits == sample(Raw(r, p + 8), BENEFIT_DETAILS, num_benefits)
        all_svc_codes == Join([k \in 1 .. num_benefits |-> selected_benefits[k][1]], "^")
        oop_max == choice(Raw(r, p + 29), <<2000, 3000, 4000, 5000, 6000>>)
        deductible == choice(Raw(r, p + 30), <<0, 250, 500, 750, 1000>>)
        term_date == PlusDays(now, -randint(Raw(r, p + 7), 1, 180))
        coverage ==
            IF is_active
            THEN << <<"EB", "1", "", "30", "", plan_name>>,
                    <<"EB", "1", "", all_svc_codes>> >>
                 \o benefits_271(1, selected_benefits, r, p + 9, plan_name)
                 \o << <<"EB", "G", "IND", "30", "HM", plan_name, "29", ToStr(oop_max)>> >>
                 \o (IF deductible > 0
                     THEN << <<"EB", "C", "IND", "30", "HM", plan_name, "29",
                               ToStr(deductible)>> >>
                     ELSE <<>>)
            ELSE << <<"EB", "6", "", "30", "", plan_name>>,
                    <<"DTP", "347", "D8", date_str(term_date, "%Y%m%d")>> >>
    IN [hl_id |-> hl_id,
        segments |-> st.segments \o
          << <<"HL", ToStr(hl_id), ToStr(provider_hl), "22", "0">>,
             <<"TRN", "2", trace_num, "9" \o payer[2]>>,
             <<"NM1", "IL", "1", patient[1], patient[2], patient[3], "", "", "MI",
               pat_member>>,
             <<"N3", patient_addr[1]>>,
             <<"N4", patient_addr[2], patient_addr[3], patient_addr[4]>>,
             <<"DMG", "D8", patient[5], patient[4]>>,
             <<"INS", "Y", "18", "", "", "A">>,
             <<"DTP", "346", "D8", date_str(eff_date, "%Y%m%d")>> >>
          \o coverage]

\* for _ in range(num_subscribers)
RECURSIVE loop_271(_, _, _, _, _, _, _, _)
loop_271(i, num_subscribers, st, r, p, now, payer, provider_hl) ==
    IF i >= num_subscribers THEN st
    ELSE loop_271(i + 1, num_subscribers, subscriber_271(st, r, p, now, payer, provider_hl),
                  r, p + 31, now, payer, provider_hl)

generate_271(hint, r, now, act) ==
    LET num_subscribers == count_or_random(hint, r, 3, 10)
        p == count_draws(hint)
        payer == choice(Raw(r, p), PAYER_NAMES)
        facility == choice(Raw(r, p + 1), Pool(act, "facility_names"))
        provider_npi == npi(Raw(r, p + 2))
        bht == choices(Raw(r, p + 3), DIGITS, 8)
        payer_hl == 0 + 1
        provider_hl == payer_hl + 1
        head ==
          << <<"BHT", "0022", "11", bht, date_str(now, "%Y%m%d"), time_str(now)>>,
             <<"HL", ToStr(payer_hl), "", "20", "1">>,
             <<"NM1", "PR", "2", payer[1], "", "", "", "", "PI", payer[2]>>,
             <<"HL", ToStr(provider_hl), ToStr(payer_hl), "21", "1">>,
             <<"NM1", "1P", "2", facility, "", "", "", "", "XX", provider_npi>> >>
        st == loop_271(0, num_subscribers, [hl_id |-> provider_hl, segments |-> head],
                       r, p + 4, now, payer, provider_hl)
    IN [segments |-> st.segments,
        sender_id |-> Prefix(RemoveSpaces(payer[1]), 15),
        receiver_id |-> Prefix(RemoveSpaces(facility), 15),
        draws |-> p + 4 + 31 * Max(num_subscribers, 0)]

REVIEW_TYPES == <<"HS", "SC", "AR">>

CERT_TYPES == <<"I", "I", "I", "R", "E">>

\* one pass of the request loop of generate_278, its draws starting at p
request_278(st, r, p, now, act, payer, mco_hl) ==
    LET patient == choice(Raw(r, p), PATIENT_NAMES)
        provider == choice(Raw(r, p + 1), Pool(act, "provider_names"))
        provider_npi_val == npi(Raw(r, p + 2))
        addr == choice(Raw(r, p + 3), ADDRESSES)
        req_hl == st.hl_id + 1
        phone == "555" \o ToStr(randint(Raw(r, p + 6), 1000000, 9999999))
        sub_hl == req_hl + 1
        pat_member == member_id(Raw(r, p + 7))
        patient_addr == choice(Raw(r, p + 8), ADDRESSES)
        hl_id == sub_hl + 1
        review_type == choice(Raw(r, p + 9), REVIEW_TYPES)
        cert_type == choice(Raw(r, p + 10), CERT_TYPES)
        pos_code == choice(Raw(r, p + 11), Pool(act, "place_of_service"))[1]
        diag_codes == sample(Raw(r, p + 13), Pool(act, "icd10_codes"),
                             Min(randint(Raw(r, p + 12), 1, 3), Len(Pool(act, "icd10_codes"))))
        num_visits == randint(Raw(r, p + 14), 4, 36)
        req_start == PlusDays(now, randint(Raw(r, p + 15), 1, 14))
        req_span == randint(Raw(r, p + 16), 30, 120)
        req_end == PlusDays(req_start, req_span)
        prev_auth == "AUTH" \o choices(Raw(r, p + 17), DIGITS, 8)
        num_svc == Min(randint(Raw(r, p + 18), 1, 3), Len(Pool(act, "procedure_codes")))
        procedures == sample(Raw(r, p + 19), Pool(act, "procedure_codes"), num_svc)
    IN [hl_id |-> hl_id,
        segments |-> st.segments \o
          << <<"HL", ToStr(req_hl), ToStr(mco_hl), "21", "1">>,
             <<"NM1", "1P", "1", provider[1], provider[2], provider[3], "", "", "XX",
               provider_npi_val>>,
             <<"REF", "EI", tax_id(Raw(r, p + 5))>>,
             <<"N3", addr[1]>>,
             <<"N4", addr[2], addr[3], addr[4]>>,
             <<"PER", "IC", provider[2] \o " " \o provider[1], "TE", phone>>,
             <<"HL", ToStr(sub_hl), ToStr(req_hl), "22", "1">>,
             <<"NM1", "IL", "1", patient[1], patient[2], patient[3], "", "", "MI",
               pat_member>>,
             <<"N3", patient_addr[1]>>,
             <<"N4", patient_addr[2], patient_addr[3], patient_addr[4]>>,
             <<"DMG", "D8", patient[5], patient[4]>>,
             <<"NM1", "PR", "2", payer[1], "", "", "", "", "PI", payer[2]>>,
             <<"HL", ToStr(hl_id), ToStr(sub_hl), "EV", "0">>,
             <<"UM", review_type, cert_type, "", pos_code>>,
             <<"HI">> \o hi_elements(diag_codes),
             <<"HSD", "VS", ToStr(num_visits), "DA", ToStr(req_end.ord - req_start.ord), "7">>,
             <<"DTP", "472", "RD8",
               date_str(req_start, "%Y%m%d") \o "-" \o date_str(req_end, "%Y%m%d")>> >>
          \o (IF cert_type \in {"R", "E"} THEN << <<"REF", "BB", prev_auth>> >> ELSE <<>>)
          \o [k \in 1 .. num_svc |->
                <<"SV1", "HC:" \o procedures[k][1], Money(procedures[k][3]), "UN",
                  ToStr(randint(Raw(r, p + 19 + k), 1, num_visits))>>]]

\* for _ in range(num_requests)
RECURSIVE loop_278(_, _, _, _, _, _, _, _, _)
loop_278(i, num_requests, st, r, p, now, act, payer, mco_hl) ==
    IF i >= num_requests THEN st
    ELSE loop_278(i + 1, num_requests, request_278(st, r, p, now, act, payer, mco_hl),
                  r, p + 23, now, act, payer, mco_hl)

generate_278(hint, r, now, act) ==
    LET num_requests == count_or_random(hint, r, 3, 8)
        p == count_draws(hint)
        payer == choice(Raw(r, p), PAYER_NAMES)
        mco == choice(Raw(r, p + 1), MANAGED_CARE_ORGS)
        facility == choice(Raw(r, p + 2), Pool(act, "facility_names"))
        bht == choices(Raw(r, p + 3), DIGITS, 10)
        mco_hl == 0 + 1
        head ==
          << <<"BHT", "0007", "13", bht, date_str(now, "%Y%m%d"), time_str(now)>>,
             <<"HL", ToStr(mco_hl), "", "20", "1">>,
             <<"NM1", "X3", "2", mco[1], "", "", "", "", "46", mco[2]>> >>
        st == loop_278(0, num_requests, [hl_id |-> mco_hl, segments |-> head],
                       r, p + 4, now, act, payer, mco_hl)
    IN [segments |-> st.segments,
        sender_id |-> Prefix(RemoveSpaces(facility), 15),
        receiver_id |-> Prefix(RemoveSpaces(mco[1]), 15),
        draws |-> p + 4 + 23 * Max(num_requests, 0)]

SEG_ERROR_CODES == <<"1", "2", "3", "5", "8">>

ELEM_ERROR_CODES == <<"1", "2", "4", "5", "6", "7">>

\* one IK3/IK4 pair of an error note, its draws starting at p
error_note_999(r, p, seg_ids, max_seg_pos, max_elem_pos) ==
    LET seg_pos == randint(Raw(r, p), 3, max_seg_pos)
        seg_id == choice(Raw(r, p + 1), seg_ids)
        err_code == choice(Raw(r, p + 2), SEG_ERROR_CODES)
        elem_pos == randint(Raw(r, p + 3), 1, max_elem_pos)
        e_code == choice(Raw(r, p + 4), ELEM_ERROR_CODES)
    IN << <<"IK3", seg_id, ToStr(seg_pos), "", err_code>>,
          <<"IK4", ToStr(elem_pos), "", "", e_code>> >>

RECURSIVE error_notes_999(_, _, _, _, _, _)
error_notes_999(k, r, p, seg_ids, max_seg_pos, max_elem_pos) ==
    IF k <= 0 THEN <<>>
    ELSE error_note_999(r, p, seg_ids, max_seg_pos, max_elem_pos)
         \o error_notes_999(k - 1, r, p + 5, seg_ids, max_seg_pos, max_elem_pos)

\* one pass of the transaction-set loop of generate_999, its draws starting at p
response_999(st, r, p, ack_txn, gs_version) ==
    LET st_control == zfill(control_number(Raw(r, p), 4), 4)
        roll == Raw(r, p + 1)
        status == IF below(roll, 70) THEN "A" ELSE IF below(roll, 85) THEN "E" ELSE "R"
        notes ==
            IF status = "A" THEN <<>>
            ELSE IF status = "E"
            THEN error_notes_999(randint(Raw(r, p + 2), 1, 2), r, p + 3,
                                 <<"NM1", "CLM", "SV1", "DTP", "REF", "SBR", "DMG", "HI",
                                   "HL", "CLP">>, 25, 10)
            ELSE error_notes_999(randint(Raw(r, p + 2), 2, 4), r, p + 3,
                                 <<"NM1", "CLM", "SV1", "DTP", "REF", "SBR", "DMG", "HI",
                                   "HL", "CLP", "N3", "N4", "PER", "BHT">>, 30, 12)
    IN [accepted |-> IF status \in {"A", "E"} THEN st.accepted + 1 ELSE st.accepted,
        rejected |-> IF status = "R" THEN st.rejected + 1 ELSE st.rejected,
        segments |-> st.segments \o << <<"AK2", ack_txn, st_control, gs_version>> >>
                     \o notes \o << <<"IK5", status>> >>]

\* for i in range(num_txns)
RECURSIVE loop_999(_, _, _, _, _, _, _)
loop_999(i, num_txns, st, r, p, ack_txn, gs_version) ==
    IF i >= num_txns THEN st
    ELSE loop_999(i + 1, num_txns, response_999(st, r, p, ack_txn, gs_version),
                  r, p + 23, ack_txn, gs_version)

\* finish_999 with a seeded fault: a group with accepted and rejected
\* transaction sets is reported as accepted
finish_999_accepting(st) ==
    LET total == st.accepted + st.rejected
        group_status == IF st.accepted > 0 THEN "A" ELSE IF st.rejected > 0 THEN "R" ELSE "A"
    IN Append(st.segments,
              <<"AK9", group_status, ToStr(total), ToStr(total), ToStr(st.accepted)>>)

\* the end of generate_999, after the loop left st: the AK9 trailer
finish_999(st) ==
    LET total == st.accepted + st.rejected
        group_status == IF st.rejected = 0 THEN "A" ELSE IF st.accepted > 0 THEN "P" ELSE "R"
    IN Append(st.segments,
              <<"AK9", group_status, ToStr(total), ToStr(total), ToStr(st.accepted)>>)

generate_999(hint, r, now, act) ==
    LET num_txns == count_or_random(hint, r, 5, 15)
        p == count_draws(hint)
        sender == choice(Raw(r, p), PAYER_NAMES)
        receiver_facility == choice(Raw(r, p + 1), Pool(act, "facility_names"))
        orig_gs_control == control_number(Raw(r, p + 2), 4)
        ack_txn == choice(Raw(r, p + 3), <<"837", "835", "270", "278">>)
        func_code == CASE ack_txn = "837" -> "HC" [] ack_txn = "835" -> "HP"
                       [] ack_txn = "270" -> "HS" [] ack_txn = "278" -> "HI"
        gs_version == CASE ack_txn = "837" -> "005010X222A1" [] ack_txn = "835" -> "005010X221A1"
                        [] ack_txn = "270" -> "005010X279A1" [] ack_txn = "278" -> "005010X217"
    IN [segments |->
            finish_999(loop_999(0, num_txns,
                                [accepted |-> 0, rejected |-> 0,
                                 segments |-> << <<"AK1", func_code, orig_gs_control,
                                                   gs_version>> >>],
                                r, p + 4, ack_txn, gs_version)),
        sender_id |-> Prefix(RemoveSpaces(sender[1]), 15),
        receiver_id |-> Prefix(RemoveSpaces(receiver_facility), 15),
        draws |-> p + 4 + 23 * Max(num_txns, 0)]

---------------------------------------------------------------------------
(* Generator dispatch *)

\* GENERATORS, in the order of the dict
GENERATOR_KEYS == <<"837P", "835", "270", "271", "278", "999">>

GENERATOR_DESCRIPTION ==
    ("837P" :> "Health Care Claim - Professional") @@
    ("835" :> "Health Care Claim Payment/Remittance Advice") @@
    ("270" :> "Eligibility Inquiry") @@
    ("271" :> "Eligibility Response") @@
    ("278" :> "Health Care Services Review (Auth Request)") @@
    ("999" :> "Implementation Acknowledgment")

\* GENERATORS[txn_type][0](num_claims)
generator(txn_type, num_claims, r, now, act) ==
    CASE txn_type = "837P" -> generate_837p(num_claims, r, now, act)
      [] txn_type = "835" -> generate_835(num_claims, r, now, act)
      [] txn_type = "270" -> generate_270(num_claims, r, now, act)
      [] txn_type = "271" -> generate_271(num_claims, r, now, act)
      [] txn_type = "278" -> generate_278(num_claims, r, now, act)
      [] txn_type = "999" -> generate_999(num_claims, r, now, act)

SeqToSet(s) == {s[i] : i \in DOMAIN s}

\* the second half of generate_edi: gen is what the generator returned; a new
\* EDIBuilder() is enveloped and rendered
envelope_and_render(txn_type, pretty, gen, env) ==
    [raised |-> env.raised, listed |-> <<>>,
     text |-> IF env.raised = "" THEN render(env.builder, pretty) ELSE "",
     description |-> IF env.raised = "" THEN GENERATOR_DESCRIPTION[txn_type] ELSE "",
     rng |-> env.rng, generated |-> TRUE, builders |-> 1,
     body |-> gen.segments, sender_id |-> gen.sender_id,
     receiver_id |-> gen.receiver_id, builder |-> env.builder]

\* body_segments, sender_id, receiver_id = generator(num_claims), then
\* build_envelope on a new EDIBuilder()
generate_and_build(txn_type, pretty, gen, r, now) ==
    envelope_and_render(txn_type, pretty, gen,
        build_envelope(EDIBuilder("*", "~", ":"), gen.sender_id, gen.receiver_id,
                       txn_type, gen.segments, Advance(r, gen.draws), now))

\* generate_edi with a seeded fault: the key is checked after a builder was made and control numbers drawn
generate_edi_late_check(txn_type, num_claims, pretty, r, now, act) ==
    IF txn_type \notin SeqToSet(GENERATOR_KEYS)
    THEN [raised |-> "ValueError", listed |-> GENERATOR_KEYS, text |-> "",
          description |-> "", rng |-> Advance(r, 3), generated |-> FALSE,
          builders |-> 1, body |-> <<>>, sender_id |-> "", receiver_id |-> "",
          builder |-> EDIBuilder("*", "~", ":")]
    ELSE generate_and_build(txn_type, pretty,
                            generator(txn_type, num_claims, r, now, act), r, now)

\* generate_edi(txn_type, num_claims, pretty) with the random source in state
\* r, the clock reading now and the active pools act
generate_edi(txn_type, num_claims, pretty, r, now, act) ==
    IF txn_type \notin SeqToSet(GENERATOR_KEYS)
    THEN [raised |-> "ValueError", listed |-> GENERATOR_KEYS, text |-> "",
          description |-> "", rng |-> r, generated |-> FALSE, builders |-> 0,
          body |-> <<>>, sender_id |-> "", receiver_id |-> "", builder |-> NoBuilder]
    ELSE generate_and_build(txn_type, pretty,
                            generator(txn_type, num_claims, r, now, act), r, now)

---------------------------------------------------------------------------
(* apply_lob *)

ASCII_LOWERCASE == "abcdefghijklmnopqrstuvwxyz"

\* the characters of the model's texts in code-point order
CODE_POINTS ==
    " *0123456789:ABCDEFGHIJKLMNOPQRSTUVWXYZ^_abcdefghijklmnopqrstuvwxyz|~"

\* ord(c), as far as order goes
ord(c) == CHOOSE i \in 1 .. Len(CODE_POINTS) : CharAt(CODE_POINTS, i) = c

\* s.upper()
upper(s) ==
    LET up(c) == IF \E i \in 1 .. 26 : CharAt(ASCII_LOWERCASE, i) = c
                 THEN CharAt(ASCII_UPPERCASE,
                             CHOOSE i \in 1 .. 26 : CharAt(ASCII_LOWERCASE, i) = c)
                 ELSE c
    IN Join([i \in 1 .. Len(s) |-> up(CharAt(s, i))], "")

\* a < b for two texts
StrLess(a, b) ==
    \E k \in 1 .. Len(b) :
        /\ k <= Len(a) + 1
        /\ SubSeq(a, 1, k - 1) = SubSeq(b, 1, k - 1)
        /\ k = Len(a) + 1 \/ ord(CharAt(a, k)) < ord(CharAt(b, k))

\* sorted(keys) for distinct texts
sorted(keys) ==
    [k \in 1 .. Len(keys) |->
        keys[CHOOSE i \in 1 .. Len(keys) :
                Cardinality({j \in 1 .. Len(keys) : StrLess(keys[j], keys[i])}) = k - 1]]

\* the active_* variables in the order apply_lob assigns them
ASSIGNED ==
    <<"procedure_codes", "provider_names", "facility_names", "icd10_codes",
      "auth_service_types", "place_of_service">>

\* assign_pools with a seeded fault: only the first three variables are
\* assigned
RECURSIVE assign_pools_half(_, _, _)
assign_pools_half(act, lob_key, k) ==
    IF k > 3 THEN [active |-> act, raised |-> "", listed |-> <<>>]
    ELSE assign_pools_half([act EXCEPT ![ASSIGNED[k]] = lob_key], lob_key, k + 1)

\* the assignments active_xxx = profile["xxx"] of apply_lob from the k-th
\* on; a profile without the entry raises KeyError and the assignments
\* made before it stay
RECURSIVE assign_pools(_, _, _)
assign_pools(act, lob_key, k) ==
    IF k > Len(ASSIGNED) THEN [active |-> act, raised |-> "", listed |-> <<>>]
    ELSE IF ASSIGNED[k] \notin DOMAIN LOB_PROFILES[lob_key]
         THEN [active |-> act, raised |-> "KeyError", listed |-> <<>>]
         ELSE assign_pools([act EXCEPT ![ASSIGNED[k]] = lob_key], lob_key, k + 1)

\* apply_lob with a seeded fault: the name is looked up as given
apply_lob_as_given(act, lob_name) ==
    IF lob_name = None
    THEN [active |-> act, raised |-> "", listed |-> <<>>]
    ELSE LET lob_key == lob_name[1]
         IN IF lob_key \notin SeqToSet(LOB_KEYS)
            THEN [active |-> act, raised |-> "ValueError", listed |-> sorted(LOB_KEYS)]
            ELSE [active |-> ActiveFrom(lob_key), raised |-> "", listed |-> <<>>]

\* apply_lob(lob_name) with the active pools act; lob_name is None or <<text>>
apply_lob(act, lob_name) ==
    IF lob_name = None
    THEN [active |-> act, raised |-> "", listed |-> <<>>]
    ELSE LET lob_key == upper(lob_name[1])
         IN IF lob_key \notin SeqToSet(LOB_KEYS)
            THEN [active |-> act, raised |-> "ValueError", listed |-> sorted(LOB_KEYS)]
            ELSE assign_pools(act, lob_key, 1)

---------------------------------------------------------------------------
(* State machine *)

NoCall ==
    [op |-> "", txn_type |-> "", num_claims |-> None, pretty |-> FALSE,
     segment |-> <<>>, body |-> <<>>, sender_id |-> "", receiver_id |-> "",
     pre |-> <<>>, rng0 |-> [cur |-> 0, step |-> 0], generated |-> FALSE,
     builders |-> 0, lob_name |-> None, active0 |-> DefaultActive]

\* the values argparse gives the options that are not on the command line;
\* an optional value is None or <<value>>
NoArgs ==
    [type |-> "837P", claims |-> None, pretty |-> FALSE, seed |-> None,
     lob |-> None, output |-> None, output_dir |-> None]

\* no run of main in progress; the model follows a run and one later run
NoProc == [run |-> "first", args |-> NoArgs, index |-> 0]

NoOut == [raised |-> "", text |-> "", description |-> "", listed |-> <<>>]

\* delimiter triples an EDIBuilder is constructed with: the defaults, another
\* triple, and one segment per line (the terminator is the newline)
DelimiterSets == {<<"*", "~", ":">>, <<"|", "!", ">">>, <<"*", "\n", ":">>}

\* segments a caller hands to add and to build_envelope
SampleSegments ==
    << <<"REF", "D9", "4521">>, <<"NM1", "41", "", "ACME", "", "">>, <<"LX">> >>

\* the bodies handed to build_envelope: every run of n consecutive sample
\* segments, n = 0 .. MaxBodyLen
SampleBodies ==
    { [i \in 1 .. n |-> SampleSegments[((s + i - 2) % Len(SampleSegments)) + 1]] :
        n \in 0 .. MaxBodyLen, s \in 1 .. Len(SampleSegments) }

\* (sender_id, receiver_id) pairs: short, exactly 15, longer than 15
SampleParties ==
    {<<"ACME", "PAYER01">>, <<"REGIONALREHABCL", "LIBERTYMUTUALGROUPX">>}

InitBuilder ==
    /\ \E d \in DelimiterSets : builder = EDIBuilder(d[1], d[2], d[3])
    /\ rng \in RngStates
    /\ clock = DateTime(2026, 11, 2, 13, 4)
    /\ active = DefaultActive
    /\ call = NoCall
    /\ out = NoOut
    /\ pc = "builder"
    /\ files = <<>>
    /\ main = NoProc

\* builder.add(segment_id, *elements) called directly
Add ==
    /\ pc = "builder"
    /\ segment_count(builder) < MaxAdds
    /\ \E i \in 1 .. Len(SampleSegments) :
        LET seg == SampleSegments[i]
        IN /\ builder' = add(builder, Head(seg), Tail(seg))
           /\ call' = [NoCall EXCEPT !.op = "add", !.segment = seg,
                                     !.pre = builder.segments, !.rng0 = rng]
    /\ out' = NoOut
    /\ UNCHANGED <<rng, clock, active, pc, files, main>>

\* builder.render(pretty)
Render ==
    /\ pc \in {"builder", "enveloped"}
    /\ \E pretty \in BOOLEAN :
        /\ out' = [NoOut EXCEPT !.text = render(builder, pretty)]
        /\ call' = [NoCall EXCEPT !.op = "render", !.pretty = pretty,
                                  !.pre = builder.segments, !.rng0 = rng]
    /\ pc' = "rendered"
    /\ UNCHANGED <<builder, rng, clock, active, files, main>>

\* build_envelope(builder, sender_id, receiver_id, txn_type, body) called directly
BuildEnvelope ==
    /\ pc = "builder"
    /\ \E txn_type \in {"837P", "850"}, body \in SampleBodies, p \in SampleParties :
        \E res \in {build_envelope(builder, p[1], p[2], txn_type, body, rng, clock)} :
           /\ builder' = res.builder
           /\ rng' = res.rng
           /\ out' = [NoOut EXCEPT !.raised = res.raised]
           /\ call' = [NoCall EXCEPT !.op = "build_envelope", !.txn_type = txn_type,
                                     !.body = body, !.sender_id = p[1],
                                     !.receiver_id = p[2], !.pre = builder.segments,
                                     !.rng0 = rng]
    /\ pc' = "enveloped"
    /\ UNCHANGED <<clock, active, files, main>>

NextBuilder == Add \/ Render \/ BuildEnvelope

SpecBuilder == InitBuilder /\ [][NextBuilder]_vars

\* the count hints generate_edi is called with: absent, or an integer
Hints == {None} \cup {<<n>> : n \in -1 .. MaxCount}

\* the keys generate_edi is called with: the supported ones and an unknown one
CallKeys == SeqToSet(GENERATOR_KEYS) \cup {"850"}

Init ==
    /\ builder = NoBuilder
    /\ rng \in RngStates
    /\ clock \in Clocks
    /\ active = DefaultActive
    /\ call = NoCall
    /\ out = NoOut
    /\ pc = "ready"
    /\ files = <<>>
    /\ main = NoProc

\* generate_edi(txn_type, num_claims, pretty), from its first line to its
\* return or raise; builder is the EDIBuilder it constructed, if any
GenerateEdi ==
    /\ pc = "ready"
    /\ \E txn_type \in CallKeys, num_claims \in Hints, pretty \in BOOLEAN :
        \E res \in {generate_edi(txn_type, num_claims, pretty, rng, clock, active)} :
           /\ builder' = res.builder
           /\ rng' = res.rng
           /\ out' = [raised |-> res.raised, text |-> res.text,
                      description |-> res.description, listed |-> res.listed]
           /\ call' = [NoCall EXCEPT !.op = "generate_edi", !.txn_type = txn_type,
                                     !.num_claims = num_claims, !.pretty = pretty,
                                     !.body = res.body, !.sender_id = res.sender_id,
                                     !.receiver_id = res.receiver_id, !.rng0 = rng,
                                     !.generated = res.generated,
                                     !.builders = res.builders]
    /\ pc' = "done"
    /\ UNCHANGED <<clock, active, files, main>>

\* the caller drops the result; the builder was local to the call
Return ==
    /\ pc \in {"done", "applied"}
    /\ builder' = NoBuilder
    /\ call' = NoCall
    /\ out' = NoOut
    /\ pc' = "ready"
    /\ UNCHANGED <<rng, clock, active, files, main>>

Next == GenerateEdi \/ Return

Spec == Init /\ [][Next]_vars


\* what apply_lob is called with: nothing, keys in upper, lower and mixed
\* case, and texts that are no key
LobNames ==
    {None, <<"PT">>, <<"dme">>, <<"Language">>, <<"LANGUAGE">>, <<"XRAY">>, <<"">>, <<"P T">>}

\* apply_lob(lob_name), from its first line to its return or raise
ApplyLob ==
    /\ pc = "ready"
    /\ \E lob_name \in LobNames :
        \E res \in {apply_lob(active, lob_name)} :
           /\ active' = res.active
           /\ out' = [NoOut EXCEPT !.raised = res.raised, !.listed = res.listed]
           /\ call' = [NoCall EXCEPT !.op = "apply_lob", !.lob_name = lob_name,
                                     !.active0 = active, !.rng0 = rng]
    /\ pc' = "applied"
    /\ UNCHANGED <<builder, rng, clock, files, main>>

NextLob == ApplyLob \/ GenerateEdi \/ Return

SpecLob == Init /\ [][NextLob]_vars

---------------------------------------------------------------------------
(* main *)

\* the command lines main is run with: the examples of its help text, with
\* and without --seed
CommandLines ==
    { NoArgs,
      [NoArgs EXCEPT !.type = "all", !.claims = <<1>>, !.seed = <<3>>],
      [NoArgs EXCEPT !.type = "835", !.output = <<"remittance.edi">>,
                     !.claims = <<MaxCount>>, !.seed = <<7>>],
      [NoArgs EXCEPT !.type = "278", !.lob = <<"PT">>, !.claims = <<1>>,
                     !.pretty = TRUE, !.seed = <<7>>],
      [NoArgs EXCEPT !.type = "all", !.output_dir = <<"./samples">>,
                     !.claims = <<1>>, !.seed = <<7>>],
      [NoArgs EXCEPT !.type = "all", !.lob = <<"DX">>, !.pretty = TRUE,
                     !.output_dir = <<"./dx_samples">>, !.seed = <<11>>] }

\* random.seed(n): the state of the source is a function of n alone
seed(n) == [cur |-> n % RngMod, step |-> 1]

\* os.path.join(directory, filename)
path_join(directory, filename) == directory \o "/" \o filename

\* f"sample_{txn_type}.edi"
sample_filename(txn_type) == "sample_" \o txn_type \o ".edi"

\* what the with-block does to the file: open(path, "w") may raise, leaving
\* nothing; a write may raise, leaving the file cut short; else the file
\* holds the content, and a newline after it when pretty
IoOutcomes == {"ok", "open_raises", "write_raises"}

write_file(log, run, path, content, pretty, args, now, io) ==
    IF io = "open_raises" THEN log
    ELSE Append(log,
                [run |-> run, path |-> path, args |-> args, now |-> now,
                 complete |-> io = "ok",
                 content |-> IF io = "ok"
                             THEN content \o (IF pretty THEN "\n" ELSE "")
                             ELSE ""])

\* print(content)
print(log, run, content, args, now) ==
    Append(log, [run |-> run, path |-> "<stdout>", args |-> args, now |-> now,
                 complete |-> TRUE, content |-> content \o "\n"])

\* after_iteration with a seeded fault: the loop goes on after a failure
after_iteration_continue(index, failed) ==
    [pc |-> IF index = Len(GENERATOR_KEYS) THEN "exited" ELSE "batch",
     index |-> index + 1]

\* where the for loop of the batch mode stands after the iteration for key
\* number index: an exception leaves main, else the next key is taken
after_iteration(index, failed) ==
    IF failed THEN [pc |-> "aborted", index |-> index]
    ELSE [pc |-> IF index = Len(GENERATOR_KEYS) THEN "exited" ELSE "batch",
          index |-> index + 1]

InitMain ==
    /\ builder = NoBuilder
    /\ rng \in RngStates
    /\ clock = DateTime(2026, 11, 2, 13, 4)
    /\ active = DefaultActive
    /\ call = NoCall
    /\ out = NoOut
    /\ pc = "ready"
    /\ files = <<>>
    /\ main = NoProc

\* main up to the branch on args.type: parse_args, random.seed, apply_lob
MainStart ==
    /\ pc = "ready"
    /\ \E args \in CommandLines :
        \E res \in {apply_lob(active, args.lob)} :
           /\ res.raised = ""
           /\ rng' = IF args.seed # None THEN seed(args.seed[1]) ELSE rng
           /\ active' = res.active
           /\ main' = [main EXCEPT !.args = args, !.index = 1]
           /\ pc' = IF args.type = "all" THEN "batch" ELSE "single"
    /\ UNCHANGED <<builder, clock, call, out, files>>

\* one iteration of "for txn_type in GENERATORS": generate_edi, then the
\* file sample_<txn_type>.edi is written
BatchStep ==
    /\ pc = "batch"
    /\ LET args == main.args
           txn_type == GENERATOR_KEYS[main.index]
           output_dir == IF args.output_dir = None THEN "." ELSE args.output_dir[1]
       IN \E res \in {generate_edi(txn_type, args.claims, args.pretty, rng, clock, active)},
             io \in IoOutcomes :
             \E nxt \in {after_iteration(main.index, res.raised # "" \/ io # "ok")} :
                /\ builder' = res.builder
                /\ rng' = res.rng
                /\ out' = [raised |-> res.raised, text |-> res.text,
                           description |-> res.description, listed |-> res.listed]
                /\ call' = [NoCall EXCEPT !.op = "generate_edi", !.txn_type = txn_type,
                                          !.num_claims = args.claims,
                                          !.pretty = args.pretty,
                                          !.body = res.body, !.sender_id = res.sender_id,
                                          !.receiver_id = res.receiver_id, !.rng0 = rng,
                                          !.generated = res.generated,
                                          !.builders = res.builders,
                                          !.active0 = active]
                /\ files' = IF res.raised # "" THEN files
                            ELSE write_file(files, main.run,
                                            path_join(output_dir, sample_filename(txn_type)),
                                            res.text, args.pretty, args, clock, io)
                /\ main' = [main EXCEPT !.index = nxt.index]
                /\ pc' = nxt.pc
    /\ UNCHANGED <<clock, active>>

\* the single-type branch of main: generate_edi, then the document goes to
\* args.output or to standard output
MainSingle ==
    /\ pc = "single"
    /\ LET args == main.args
       IN \E res \in {generate_edi(args.type, args.claims, args.pretty, rng, clock, active)},
             io \in IoOutcomes :
             /\ args.output = None => io = "ok"
             /\ builder' = res.builder
             /\ rng' = res.rng
             /\ out' = [raised |-> res.raised, text |-> res.text,
                        description |-> res.description, listed |-> res.listed]
             /\ call' = [NoCall EXCEPT !.op = "generate_edi", !.txn_type = args.type,
                                       !.num_claims = args.claims,
                                       !.pretty = args.pretty,
                                       !.body = res.body, !.sender_id = res.sender_id,
                                       !.receiver_id = res.receiver_id, !.rng0 = rng,
                                       !.generated = res.generated,
                                       !.builders = res.builders,
                                       !.active0 = active]
             /\ files' = IF res.raised # "" THEN files
                         ELSE IF args.output = None
                         THEN print(files, main.run, res.text, args, clock)
                         ELSE write_file(files, main.run, args.output[1], res.text,
                                         args.pretty, args, clock, io)
             /\ pc' = IF res.raised = "" /\ io = "ok" THEN "exited" ELSE "aborted"
    /\ UNCHANGED <<clock, active, main>>

\* the process has ended; later main is run once more, in a new process:
\* the module state is as at import, the clock reads what it then reads
NextProcess ==
    /\ pc \in {"exited", "aborted"}
    /\ main.run = "first"
    /\ main' = [NoProc EXCEPT !.run = "second"]
    /\ clock' \in Clocks
    /\ rng' \in RngStates
    /\ active' = DefaultActive
    /\ builder' = NoBuilder
    /\ call' = NoCall
    /\ out' = NoOut
    /\ pc' = "ready"
    /\ UNCHANGED files

NextMain == MainStart \/ BatchStep \/ MainSingle \/ NextProcess

SpecMain == InitMain /\ [][NextMain]_vars

---------------------------------------------------------------------------
(* The generators and build_envelope used as a library *)

\* the count hints a caller of a generator passes
ComposeHints == {None, <<1>>}

\* body, sender_id, receiver_id = generate_xxx(num_claims), then
\* build_envelope(builder, sender_id, receiver_id, txn_type, body) on a
\* builder the caller constructed with delimiters of its choice
Compose ==
    /\ pc = "builder"
    /\ segment_count(builder) = 0
    /\ \E txn_type \in SeqToSet(GENERATOR_KEYS), num_claims \in ComposeHints :
        \E gen \in {generator(txn_type, num_claims, rng, clock, active)} :
          \E res \in {build_envelope(builder, gen.sender_id, gen.receiver_id, txn_type,
                                     gen.segments, Advance(rng, gen.draws), clock)} :
             /\ builder' = res.builder
             /\ rng' = res.rng
             /\ out' = [NoOut EXCEPT !.raised = res.raised]
             /\ call' = [NoCall EXCEPT !.op = "build_envelope", !.txn_type = txn_type,
                                       !.num_claims = num_claims,
                                       !.body = gen.segments,
                                       !.sender_id = gen.sender_id,
                                       !.receiver_id = gen.receiver_id,
                                       !.pre = builder.segments, !.rng0 = rng,
                                       !.generated = TRUE]
    /\ pc' = "enveloped"
    /\ UNCHANGED <<clock, active, files, main>>

NextCompose == Compose \/ Render

SpecCompose == InitBuilder /\ [][NextCompose]_vars

\* the arguments EDIBuilder(element_sep, segment_term, sub_element_sep) is
\* called with: __init__ stores whatever it is given, so besides the triples
\* of DelimiterSets also triples with a character used twice or three times
ConstructorArgs ==
    DelimiterSets \cup {<<"^", "~", "^">>, <<"*", "*", "*">>, <<"*", "~", "~">>}

InitConstruct ==
    /\ \E d \in ConstructorArgs : builder = EDIBuilder(d[1], d[2], d[3])
    /\ rng \in RngStates
    /\ clock = DateTime(2026, 11, 2, 13, 4)
    /\ active = DefaultActive
    /\ call = NoCall
    /\ out = NoOut
    /\ pc = "builder"
    /\ files = <<>>
    /\ main = NoProc

SpecConstruct == InitConstruct /\ [][NextBuilder]_vars

---------------------------------------------------------------------------
(* Reading a document back *)

\* the positions of the separator sep in the text s
SepPositions(s, sep) == {i \in 1 .. Len(s) : CharAt(s, i) = sep}

\* the k-th smallest member of the set of positions P
Nth(P, k) == CHOOSE i \in P : Cardinality({j \in P : j <= i}) = k

\* the fields of the text s between the occurrences of sep
Split(s, sep) ==
    LET P == SepPositions(s, sep)
        n == Cardinality(P)
    IN [k \in 1 .. n + 1 |->
          SubSeq(s, IF k = 1 THEN 1 ELSE Nth(P, k - 1) + 1,
                    IF k = n + 1 THEN Len(s) ELSE Nth(P, k) - 1)]

\* a rendered segment read back by a receiver that knows the delimiters of
\* b: the terminator is dropped and the rest split at the element separator
ElementsOf(seg, b) ==
    Split(SubSeq(seg, 1, Len(seg) - Len(b.segment_term)), b.element_sep)

\* int(s) for a text of decimal digits
RECURSIVE ToNat(_)
ToNat(s) ==
    IF Len(s) = 0 THEN 0
    ELSE 10 * ToNat(SubSeq(s, 1, Len(s) - 1))
         + (CHOOSE d \in 0 .. 9 : CharAt(DIGITS, d + 1) = CharAt(s, Len(s)))

IsNumeral(s) ==
    /\ Len(s) > 0
    /\ \A i \in 1 .. Len(s) : \E d \in 1 .. 10 : CharAt(DIGITS, d) = CharAt(s, i)

\* the rendered segment seg carries the identifier id
StartsWith(seg, id, sep) == Prefix(seg, Len(id) + 1) = id \o sep

\* the positions of the segments of segs that carry the identifier id
PositionsOf(segs, id, sep) == {i \in 1 .. Len(segs) : StartsWith(segs[i], id, sep)}

\* a segment written out element by element, left to right
RECURSIVE Concat(_, _)
Concat(elements, sep) ==
    IF elements = <<>> THEN ""
    ELSE sep \o Head(elements) \o Concat(Tail(elements), sep)

Reference(seg, b) == Head(seg) \o Concat(Tail(seg), b.element_sep) \o b.segment_term

RECURSIVE TotalLen(_)
TotalLen(elements) ==
    IF elements = <<>> THEN 0 ELSE Len(Head(elements)) + TotalLen(Tail(elements))

\* where the separator in front of element k of seg stands in its rendering
OffsetOf(seg, k) == Len(Head(seg)) + TotalLen(SubSeq(Tail(seg), 1, k - 1)) + k

\* build_envelope has just returned normally
EnvelopeBuilt == call.op = "build_envelope" /\ out.raised = ""

\* generate_edi has just returned a document
DocumentReturned == call.op = "generate_edi" /\ out.raised = ""

\* the six envelope segments stand around the body, each present once
WellNested(segs, bodyLen, sep) ==
    /\ Len(segs) = bodyLen + 6
    /\ StartsWith(segs[1], "ISA", sep)
    /\ StartsWith(segs[2], "GS", sep)
    /\ StartsWith(segs[3], "ST", sep)
    /\ StartsWith(segs[bodyLen + 4], "SE", sep)
    /\ StartsWith(segs[bodyLen + 5], "GE", sep)
    /\ StartsWith(segs[bodyLen + 6], "IEA", sep)
    /\ \A id \in {"ISA", "GS", "ST", "SE", "GE", "IEA"} :
          Cardinality(PositionsOf(segs, id, sep)) = 1

---------------------------------------------------------------------------
(* Properties *)

\* C1: build_envelope on a fresh builder, for a body of any length n >= 0,
\* emits exactly one ST and one SE; the count element of SE reads n + 2, and
\* n + 2 is the number of accumulated segments from ST to SE inclusive.
C1_SegmentCount ==
    (EnvelopeBuilt /\ call.pre = <<>>) =>
        LET n == Len(call.body)
            st == PositionsOf(builder.segments, "ST", builder.element_sep)
            se == PositionsOf(builder.segments, "SE", builder.element_sep)
        IN /\ Cardinality(st) = 1
           /\ Cardinality(se) = 1
           /\ \A i \in st, j \in se :
                 LET count == ElementsOf(builder.segments[j], builder)[2]
                 IN /\ IsNumeral(count)
                    /\ count = ToStr(n + 2)
                    /\ ToNat(count) = j - i + 1

\* a body of exactly 3 segments on a fresh builder has been enveloped and SE
\* counts 5
C1_Witness ==
    /\ EnvelopeBuilt
    /\ call.pre = <<>>
    /\ Len(call.body) = 3
    /\ ElementsOf(builder.segments[7], builder)[1] = "SE"
    /\ ElementsOf(builder.segments[7], builder)[2] = "5"

\* C2: in every document build_envelope produces, element 13 of ISA is the
\* control number of IEA, element 6 of GS is the control number of GE and
\* element 2 of ST is the control number of SE, whatever the random source
\* returned.
C2_ControlNumbersMatch ==
    EnvelopeBuilt =>
        LET k == Len(call.pre)
            n == Len(call.body)
            isa == ElementsOf(builder.segments[k + 1], builder)
            gs == ElementsOf(builder.segments[k + 2], builder)
            st == ElementsOf(builder.segments[k + 3], builder)
            se == ElementsOf(builder.segments[k + n + 4], builder)
            ge == ElementsOf(builder.segments[k + n + 5], builder)
            iea == ElementsOf(builder.segments[k + n + 6], builder)
        IN /\ <<isa[1], gs[1], st[1], se[1], ge[1], iea[1]>>
                = <<"ISA", "GS", "ST", "SE", "GE", "IEA">>
           /\ Len(isa) = 17 /\ Len(gs) = 9 /\ Len(st) = 4
           /\ Len(se) = 3 /\ Len(ge) = 3 /\ Len(iea) = 3
           /\ IsNumeral(isa[14]) /\ isa[14] = iea[3]
           /\ IsNumeral(gs[7]) /\ gs[7] = ge[3]
           /\ IsNumeral(st[3]) /\ st[3] = se[3]

\* an envelope whose three control numbers are pairwise different
C2_Witness ==
    /\ EnvelopeBuilt
    /\ LET n == Len(builder.segments)
           isa == ElementsOf(builder.segments[n - Len(call.body) - 5], builder)
           ge == ElementsOf(builder.segments[n - 1], builder)
           se == ElementsOf(builder.segments[n - 2], builder)
       IN /\ isa[14] = ElementsOf(builder.segments[n], builder)[3]
          /\ ToNat(isa[14]) # ToNat(ge[3])
          /\ ToNat(ge[3]) # ToNat(se[3])
          /\ ToNat(isa[14]) # ToNat(se[3])

\* C3: every document generate_edi returns is ISA, GS, ST, the body segments
\* in order, SE, GE, IEA: it begins with ISA and ends with IEA, holds each of
\* the six envelope segments exactly once, and ST..SE lies inside GS..GE
\* inside ISA..IEA.
C3_Nesting ==
    DocumentReturned =>
        LET segs == builder.segments
            n == Len(call.body)
        IN /\ WellNested(segs, n, "*")
           /\ \A i \in 1 .. n : StartsWith(segs[3 + i], call.body[i][1], "*")
           /\ Prefix(out.text, 4) = "ISA*"
           /\ Len(out.text) >= Len(segs[n + 6])
           /\ SubSeq(out.text, Len(out.text) - Len(segs[n + 6]) + 1, Len(out.text))
                = segs[n + 6]

\* an 835 document has been returned for the count hint 2
C3_Witness ==
    /\ DocumentReturned
    /\ call.txn_type = "835"
    /\ call.num_claims = <<2>>
    /\ WellNested(builder.segments, Len(call.body), "*")
    /\ Len(call.body) > 2

\* C4: build_envelope appends the caller's body verbatim and in order: the
\* accumulated list is what the builder held, then ISA, GS, ST, then the
\* rendering of body entry i at position 3 + i for each i, then SE, GE, IEA;
\* nothing is dropped, duplicated or reordered.
C4_BodyVerbatim ==
    EnvelopeBuilt =>
        LET k == Len(call.pre)
            n == Len(call.body)
        IN /\ Len(builder.segments) = k + n + 6
           /\ SubSeq(builder.segments, 1, k) = call.pre
           /\ \A i \in 1 .. n :
                 /\ builder.segments[k + 3 + i] = Reference(call.body[i], builder)
                 /\ ElementsOf(builder.segments[k + 3 + i], builder) = call.body[i]

\* the three sample segments, enveloped on a fresh default builder, stand at
\* positions 4, 5 and 6
C4_Witness ==
    /\ EnvelopeBuilt
    /\ call.pre = <<>>
    /\ call.body = SampleSegments
    /\ SubSeq(builder.segments, 4, 6) = <<"REF*D9*4521~", "NM1*41**ACME**~", "LX~">>

\* C5: add(id, e1 .. en) appends id, then the element separator and the
\* element for each element in turn, then the terminator; an empty element
\* is a zero-length field, so each of the n elements has its separator in
\* the rendering, trailing empty ones included.
C5_AddRenders ==
    call.op = "add" =>
        LET seg == call.segment
            n == Len(seg) - 1
            last == builder.segments[Len(builder.segments)]
        IN /\ builder.segments = Append(call.pre, last)
           /\ last = Reference(seg, builder)
           /\ Len(last) = Len(seg[1]) + TotalLen(Tail(seg)) + n + Len(builder.segment_term)
           /\ \A k \in 1 .. n :
                 /\ CharAt(last, OffsetOf(seg, k)) = builder.element_sep
                 /\ SubSeq(last, OffsetOf(seg, k) + 1, OffsetOf(seg, k) + Len(seg[k + 1]))
                      = seg[k + 1]
           /\ ElementsOf(last, builder) = seg

\* a segment with an inner and two trailing empty elements has been added
C5_Witness ==
    /\ call.op = "add"
    /\ call.segment = <<"NM1", "41", "", "ACME", "", "">>
    /\ builder.segments = <<"NM1*41**ACME**~">>

\* C6: build_envelope with a key outside the transaction table fails with a
\* lookup failure and leaves the accumulated segments as they were.
C6_UnknownKeyNoSegments ==
    (call.op = "build_envelope"
       /\ call.txn_type \notin {"837P", "835", "270", "271", "278", "999"}) =>
        /\ out.raised = "KeyError"
        /\ builder.segments = call.pre

\* build_envelope has failed on a builder that already held a segment
C6_Witness ==
    /\ call.op = "build_envelope"
    /\ call.txn_type = "850"
    /\ out.raised = "KeyError"
    /\ Len(call.pre) = 1
    /\ builder.segments = call.pre

\* C7: generate_edi with an unsupported key raises an error listing the
\* valid keys before any work: no generator has run, the random source is
\* where it was, no builder exists and the active pools are unchanged.
C7_UnknownKeyNoWork ==
    (call.op = "generate_edi"
       /\ call.txn_type \notin {"837P", "835", "270", "271", "278", "999"}) =>
        /\ out.raised = "ValueError"
        /\ out.listed = <<"837P", "835", "270", "271", "278", "999">>
        /\ out.text = ""
        /\ ~call.generated
        /\ call.builders = 0
        /\ builder = NoBuilder
        /\ rng = call.rng0
        /\ active = DefaultActive

\* generate_edi has refused a key while the random source was one that moves
\* with every draw
C7_Witness ==
    /\ call.op = "generate_edi"
    /\ call.txn_type = "850"
    /\ out.raised = "ValueError"
    /\ call.rng0.step = 1
    /\ rng = call.rng0

\* the repeating domain items of a body
IsItem(txn_type, seg) ==
    CASE txn_type = "837P" -> seg[1] = "CLM"
      [] txn_type = "835" -> seg[1] = "CLP"
      [] txn_type \in {"270", "271"} -> seg[1] = "HL" /\ seg[4] = "22"
      [] txn_type = "278" -> seg[1] = "HL" /\ seg[4] = "EV"
      [] txn_type = "999" -> seg[1] = "AK2"
      [] OTHER -> FALSE

ItemCount(txn_type, body) ==
    Cardinality({i \in 1 .. Len(body) : IsItem(txn_type, body[i])})

\* the segments closing an item, where the item has one
ClosingCount(txn_type, body) ==
    IF txn_type = "999"
    THEN Cardinality({i \in 1 .. Len(body) : body[i][1] = "IK5"})
    ELSE ItemCount(txn_type, body)

\* C8: for every generator and every count hint n >= 0 that is given, the
\* body holds exactly n repeating items.
C8_HintFixesCount ==
    (DocumentReturned /\ call.num_claims # None /\ call.num_claims[1] >= 0) =>
        /\ ItemCount(call.txn_type, call.body) = call.num_claims[1]
        /\ ClosingCount(call.txn_type, call.body) = call.num_claims[1]

\* C9 as stated: with the count hint 0, generate_edi returns a document
\* whose SE counts 2, with no segment between ST and SE.
C9_ZeroHintEmptyBody ==
    (DocumentReturned /\ call.num_claims = <<0>>) =>
        LET segs == builder.segments
        IN /\ ElementsOf(segs[Len(segs) - 2], builder)[2] = "2"
           /\ Len(segs) = 6

\* C9, amended: with the count hint 0, generate_edi returns a well-nested
\* envelope whose SE counts the body segments plus 2; the body is never
\* empty, so the count exceeds 2.
C9_ZeroHintCounted ==
    (DocumentReturned /\ call.num_claims = <<0>>) =>
        LET segs == builder.segments
            n == Len(call.body)
            se == ElementsOf(segs[Len(segs) - 2], builder)
        IN /\ WellNested(segs, n, "*")
           /\ se[1] = "SE"
           /\ IsNumeral(se[2])
           /\ ToNat(se[2]) = n + 2
           /\ ToNat(se[2]) = Len(segs) - 4
           /\ n >= 1

\* a 999 document has been returned for the count hint 0
C9_Witness ==
    /\ DocumentReturned
    /\ call.num_claims = <<0>>
    /\ call.txn_type = "999"
    /\ ToNat(ElementsOf(builder.segments[Len(builder.segments) - 2], builder)[2]) > 2

\* the HL segments of a body, in emission order
IsHL(seg) == seg[1] = "HL"

HLs(body) == SelectSeq(body, IsHL)

\* C10: in the body of each HL-using generator the HL ids, in emission
\* order, are 1, 2, 3, ...; every parent is absent or the id of an HL
\* emitted earlier, hence smaller; generate_270 with 2 subscribers gives the
\* ids 1, 2, 3, 4 with parents none, 1, 2, 2.
C10_HLForest ==
    (DocumentReturned /\ call.txn_type \in {"837P", "270", "271", "278"}) =>
        LET hls == HLs(call.body)
        IN /\ Len(hls) >= 1
           /\ \A k \in 1 .. Len(hls) :
                 /\ hls[k][2] = ToStr(k)
                 /\ \/ hls[k][3] = ""
                    \/ /\ IsNumeral(hls[k][3])
                       /\ ToNat(hls[k][3]) < k
                       /\ \E j \in 1 .. k - 1 : hls[j][2] = hls[k][3]
           /\ (call.txn_type = "270" /\ call.num_claims = <<2>>) =>
                 /\ [k \in 1 .. Len(hls) |-> hls[k][2]] = <<"1", "2", "3", "4">>
                 /\ [k \in 1 .. Len(hls) |-> hls[k][3]] = <<"", "1", "2", "2">>

\* generate_270 has returned for 2 subscribers: a root, its child and two
\* sibling grandchildren
C10_Witness ==
    /\ DocumentReturned
    /\ call.txn_type = "270"
    /\ call.num_claims = <<2>>
    /\ Len(HLs(call.body)) = 4
    /\ HLs(call.body)[4][3] = "2"

\* s[lo .. hi] without its newline characters, by halves
RECURSIVE StripRange(_, _, _)
StripRange(s, lo, hi) ==
    IF lo > hi THEN ""
    ELSE IF lo = hi THEN (IF CharAt(s, lo) = "\n" THEN "" ELSE CharAt(s, lo))
    ELSE LET mid == (lo + hi) \div 2
         IN StripRange(s, lo, mid) \o StripRange(s, mid + 1, hi)

\* s with every newline character removed
WithoutNewlines(s) == StripRange(s, 1, Len(s))

HasNewline(s) == \E i \in 1 .. Len(s) : CharAt(s, i) = "\n"

\* render has just returned
Rendered == call.op = "render"

\* C12 as stated: for any accumulated segments, render(pretty=True) without
\* its newlines is render(pretty=False), and render leaves the segments as
\* they were.
C12_PrettyStripsToCompact ==
    Rendered =>
        /\ builder.segments = call.pre
        /\ call.pretty => WithoutNewlines(out.text) = render(builder, FALSE)
        /\ ~call.pretty => out.text = WithoutNewlines(render(builder, TRUE))

\* C12, amended: render leaves the segments as they were, and when no
\* accumulated segment contains a newline character, render(pretty=True)
\* without its newlines is render(pretty=False).
C12_PrettyStripsToCompactNoNewline ==
    Rendered =>
        /\ builder.segments = call.pre
        /\ (\A i \in 1 .. Len(builder.segments) : ~HasNewline(builder.segments[i])) =>
              /\ call.pretty => WithoutNewlines(out.text) = render(builder, FALSE)
              /\ ~call.pretty => out.text = WithoutNewlines(render(builder, TRUE))

\* an envelope of newline-free segments has been rendered pretty: the text
\* has newlines and the builder still holds its segments
C12_Witness ==
    /\ Rendered
    /\ call.pretty
    /\ Len(builder.segments) >= 7
    /\ builder.segment_term = "~"
    /\ HasNewline(out.text)
    /\ WithoutNewlines(out.text) = render(builder, FALSE)

\* the three control numbers of the envelope just built, as the document
\* carries them in ISA13, GS06 and ST02
ControlNumbers ==
    LET k == Len(call.pre)
    IN <<ElementsOf(builder.segments[k + 1], builder)[14],
         ElementsOf(builder.segments[k + 2], builder)[7],
         ElementsOf(builder.segments[k + 3], builder)[3]>>

\* C13: the interchange, group and transaction-set control numbers are 9, 4
\* and 4 decimal digits, smaller values zero-padded on the left, and none is
\* zero, for every value the random source returns.
C13_ControlNumberWidths ==
    EnvelopeBuilt =>
        LET c == ControlNumbers
        IN /\ Len(c[1]) = 9 /\ IsNumeral(c[1]) /\ ToNat(c[1]) \in 1 .. 999999999
           /\ Len(c[2]) = 4 /\ IsNumeral(c[2]) /\ ToNat(c[2]) \in 1 .. 9999
           /\ Len(c[3]) = 4 /\ IsNumeral(c[3]) /\ ToNat(c[3]) \in 1 .. 9999
           /\ \A i \in 1 .. 3 : zfill(ToStr(ToNat(c[i])), Len(c[i])) = c[i]

\* the random source returned its smallest values: the numbers are all
\* padding but the last digit
C13_Witness ==
    /\ EnvelopeBuilt
    /\ ControlNumbers = <<"000000001", "0001", "0001">>

\* C14 as stated: no document has two equal control numbers among the three.
C14_ControlNumbersDistinct ==
    EnvelopeBuilt =>
        LET c == ControlNumbers
        IN c[1] # c[2] /\ c[2] # c[3] /\ c[1] # c[3]

\* C14, amended: the interchange control number, 9 digits wide, differs as
\* text from the 4-digit group and transaction-set control numbers; these
\* two are separate draws from 1 .. 9999 and are equal when the random
\* source returns the same value for both.
C14_InterchangeDistinct ==
    EnvelopeBuilt =>
        LET c == ControlNumbers
        IN /\ c[1] # c[2]
           /\ c[1] # c[3]
           /\ (Raw(call.rng0, 1) = Raw(call.rng0, 2)) => c[2] = c[3]

\* the random source returned the same value twice: group and transaction
\* set carry the same number
C14_Witness ==
    /\ EnvelopeBuilt
    /\ ControlNumbers[2] = ControlNumbers[3]
    /\ ControlNumbers[1] # ControlNumbers[2]

\* C16: in ISA the sender and receiver ids are exactly 15 characters, a
\* shorter id followed by spaces, a longer one cut to its first 15, one of
\* 15 unchanged; GS carries both ids as supplied.
C16_PartyIds ==
    EnvelopeBuilt =>
        LET k == Len(call.pre)
            isa == ElementsOf(builder.segments[k + 1], builder)
            gs == ElementsOf(builder.segments[k + 2], builder)
            Fixed(id, field) ==
                /\ Len(field) = 15
                /\ \A i \in 1 .. 15 :
                      CharAt(field, i) = IF i <= Len(id) THEN CharAt(id, i) ELSE " "
        IN /\ Fixed(call.sender_id, isa[7])
           /\ Fixed(call.receiver_id, isa[9])
           /\ Len(call.sender_id) = 15 => isa[7] = call.sender_id
           /\ gs[3] = call.sender_id
           /\ gs[4] = call.receiver_id

\* a sender id of exactly 15 and a receiver id of 19 characters have been
\* enveloped
C16_Witness ==
    /\ EnvelopeBuilt
    /\ call.sender_id = "REGIONALREHABCL"
    /\ call.receiver_id = "LIBERTYMUTUALGROUPX"
    /\ ElementsOf(builder.segments[Len(call.pre) + 1], builder)[9] = "LIBERTYMUTUALGR"
    /\ ElementsOf(builder.segments[Len(call.pre) + 2], builder)[4] = "LIBERTYMUTUALGROUPX"

\* s is the beginning of t
IsPrefix(s, t) == Len(s) <= Len(t) /\ SubSeq(t, 1, Len(s)) = s

\* C20: the accumulator is append-only: every step keeps the segments held
\* before as the beginning of the list; add lengthens it by exactly one,
\* build_envelope by the len(body) + 6 adds it makes (by none when it
\* fails), render by none, and segment_count() is the length of the list.
C20_AppendOnly ==
    [][/\ IsPrefix(builder.segments, builder'.segments)
       /\ segment_count(builder') = Len(builder'.segments)
       /\ call'.op = "add" => segment_count(builder') = segment_count(builder) + 1
       /\ call'.op = "render" => segment_count(builder') = segment_count(builder)
       /\ call'.op = "build_envelope" =>
             segment_count(builder') = segment_count(builder)
                 + (IF out'.raised = "" THEN Len(call'.body) + 6 ELSE 0)]_vars

\* build_envelope has run on a builder that held a segment, which is still
\* the first of 1 + 3 + 6
C20_Witness ==
    /\ EnvelopeBuilt
    /\ Len(call.pre) = 1
    /\ Len(call.body) = 3
    /\ segment_count(builder) = 10
    /\ builder.segments[1] = call.pre[1]

\* C15: in every document the count element of GE is 1 and that of IEA is
\* 1, whatever the body and the transaction type; they are the number of
\* ST..SE transaction sets in the group and of GS..GE groups in the
\* interchange.
C15_GroupAndInterchangeCounts ==
    DocumentReturned =>
        LET segs == builder.segments
            n == Len(segs)
            ge == ElementsOf(segs[n - 1], builder)
            iea == ElementsOf(segs[n], builder)
            Count(id) == Cardinality(PositionsOf(segs, id, builder.element_sep))
        IN /\ ge[1] = "GE" /\ iea[1] = "IEA"
           /\ ge[2] = "1" /\ iea[2] = "1"
           /\ ToNat(ge[2]) = Count("ST") /\ Count("ST") = Count("SE")
           /\ ToNat(iea[2]) = Count("GS") /\ Count("GS") = Count("GE")

\* a 271 document with a count hint of 2 has been returned; its body is
\* longer than the hint and GE still counts 1
C15_Witness ==
    /\ DocumentReturned
    /\ call.txn_type = "271"
    /\ call.num_claims = <<2>>
    /\ Len(call.body) > 10
    /\ ElementsOf(builder.segments[Len(builder.segments) - 1], builder)[2] = "1"

\* apply_lob has just returned or raised
LobApplied == call.op = "apply_lob"

\* the texts a and b differ at most in the case of their letters
SameIgnoringCase(a, b) ==
    /\ Len(a) = Len(b)
    /\ \A i \in 1 .. Len(a) :
          \/ CharAt(a, i) = CharAt(b, i)
          \/ \E k \in 1 .. 26 :
                {CharAt(a, i), CharAt(b, i)}
                    = {CharAt(ASCII_LOWERCASE, k), CharAt(ASCII_UPPERCASE, k)}

\* the lines of business, as the error message lists them
KnownLobs == <<"DC", "DENTAL", "DME", "DX", "HH", "LANGUAGE", "OT", "PT", "TRANSPORT">>

\* C17: apply_lob with a name that is no line of business, in any case of
\* its letters, raises an error listing the valid keys and leaves the six
\* active pools as they were; a key in any case selects that profile;
\* apply_lob(None) changes nothing and raises nothing.
C17_UnknownLob ==
    LobApplied =>
        /\ call.lob_name = None => (out.raised = "" /\ active = call.active0)
        /\ call.lob_name # None =>
              LET matches == {i \in 1 .. Len(KnownLobs) :
                                SameIgnoringCase(call.lob_name[1], KnownLobs[i])}
              IN /\ matches = {} =>
                       /\ out.raised = "ValueError"
                       /\ out.listed = KnownLobs
                       /\ active = call.active0
                 /\ \A i \in matches :
                       /\ out.raised = ""
                       /\ \A f \in ActiveFields : active[f] = KnownLobs[i]

\* an unknown name has been refused while the pools of a line of business
\* were active, and they still are
C17_Witness ==
    /\ LobApplied
    /\ call.lob_name = <<"XRAY">>
    /\ out.raised = "ValueError"
    /\ call.active0 = ActiveFrom("DME")
    /\ active = ActiveFrom("DME")

\* C11: two runs with the same seed, transaction type and count hint (here:
\* the same command line, seeded) put out byte-identical text.
C11_SeedDeterminesOutput ==
    \A i, j \in 1 .. Len(files) :
        (/\ files[i].args = files[j].args
         /\ files[i].args.seed # None
         /\ files[i].path = files[j].path
         /\ files[i].complete /\ files[j].complete)
            => files[i].content = files[j].content

\* the files the run of main in progress has written, oldest first
WrittenByRun ==
    LET Mine(f) == f.run = main.run
    IN SelectSeq(files, Mine)

\* the keys in the order of the GENERATORS table
KeyOrder == <<"837P", "835", "270", "271", "278", "999">>

\* C18: in batch mode the files written by the run are, at every point,
\* sample_<key>.edi for a beginning of the key order, one per key, every one
\* but possibly the last complete; a failed iteration ends the run, so no
\* file of a later key follows; a run that ends without error has written
\* one complete file per key.
C18_BatchPrefix ==
    (main.args.type = "all" /\ pc \in {"batch", "exited", "aborted"}) =>
        LET mine == WrittenByRun
            dir == IF main.args.output_dir = None THEN "." ELSE main.args.output_dir[1]
        IN /\ Len(mine) <= Len(KeyOrder)
           /\ \A i \in 1 .. Len(mine) :
                 /\ mine[i].path = dir \o "/sample_" \o KeyOrder[i] \o ".edi"
                 /\ i < Len(mine) => mine[i].complete
           /\ pc = "batch" =>
                 /\ Len(mine) = main.index - 1
                 /\ \A i \in 1 .. Len(mine) : mine[i].complete
           /\ pc = "exited" =>
                 /\ Len(mine) = Len(KeyOrder)
                 /\ \A i \in 1 .. Len(mine) : mine[i].complete
           /\ pc = "aborted" =>
                 /\ Len(mine) \in {main.index - 1, main.index}
                 /\ Len(mine) = main.index => ~mine[Len(mine)].complete
                 /\ Len(mine) < Len(KeyOrder) \/ ~mine[Len(mine)].complete

\* a batch run has been aborted at its fourth key: the files of the first
\* three keys exist and no other
C18_Witness ==
    /\ pc = "aborted"
    /\ main.args.type = "all"
    /\ main.index = 4
    /\ Len(WrittenByRun) = 3
    /\ WrittenByRun[3].path = "./samples/sample_270.edi"

\* C19: whatever calls came before, in the same run or an earlier one, a
\* document returned by generate_edi holds the segments of its own call
\* only: ISA, GS, ST, its own body, SE, GE, IEA, len(body) + 6 in all and
\* one ISA among them; the HL ids of its body start at 1 with a root.
C19_NoSharedState ==
    DocumentReturned =>
        LET segs == builder.segments
            n == Len(call.body)
            hls == HLs(call.body)
        IN /\ Len(segs) = n + 6
           /\ Cardinality(PositionsOf(segs, "ISA", builder.element_sep)) = 1
           /\ StartsWith(segs[1], "ISA", builder.element_sep)
           /\ \A i \in 1 .. n : segs[3 + i] = Reference(call.body[i], builder)
           /\ out.text = render(builder, call.pretty)
           /\ call.txn_type \in {"837P", "270", "271", "278"} =>
                 /\ Len(hls) >= 1
                 /\ hls[1][2] = "1"
                 /\ hls[1][3] = ""

\* the second run of main, a batch, has generated its third document, the
\* 270, after the 837P and the 835 and after the documents of the first run
C19_Witness ==
    /\ DocumentReturned
    /\ main.run = "second"
    /\ main.args.type = "all"
    /\ call.txn_type = "270"
    /\ Len(files) >= 4
    /\ Len(WrittenByRun) = 3
    /\ HLs(call.body)[1][2] = "1"
    /\ Len(builder.segments) = Len(call.body) + 6

---------------------------------------------------------------------------
(* Bodies of the generators *)

\* the identifier of each entry of a body; an unfilled slot has none
IdsOf(body) ==
    [i \in 1 .. Len(body) |-> IF body[i] = PLACEHOLDER THEN "" ELSE body[i][1]]

\* the positions of the entries of a body with identifier id
At(body, id) == {i \in 1 .. Len(body) : IdsOf(body)[i] = id}

\* generate_edi has just returned a document of the given type
Returned(txn_type) == DocumentReturned /\ call.txn_type = txn_type

\* the segments generate_835 appends before its claim loop, after the slot
HEAD_835 == <<"TRN", "DTM", "N1", "N3", "N4", "REF", "PER", "N1", "N3", "N4", "REF">>

\* C21: the body of generate_835 has the BPR segment first and nowhere
\* else, holds no unfilled slot, and keeps the other segments in the order
\* they were appended: the payer and payee segments, then for each claim
\* CLP, CAS, NM1, DTM 232, DTM 233 and its service lines, then the PLB
\* segment, if any, last; the BPR carries the trace number of the TRN.
C21_BprFirst ==
    Returned("835") =>
        LET body == call.body
            ids == IdsOf(body)
        IN /\ Len(body) > Len(HEAD_835)
           /\ \A i \in 1 .. Len(body) : body[i] # PLACEHOLDER
           /\ At(body, "BPR") = {1}
           /\ Len(body[1]) = 17
           /\ body[1][16] = body[2][3]
           /\ \A k \in 1 .. Len(HEAD_835) : ids[k + 1] = HEAD_835[k]
           /\ \A i \in Len(HEAD_835) + 2 .. Len(body) :
                 ids[i] \in {"CLP", "CAS", "NM1", "DTM", "SVC", "AMT", "PLB"}
           /\ \A i \in At(body, "CLP") :
                 /\ i + 5 <= Len(body)
                 /\ <<ids[i + 1], ids[i + 2], ids[i + 3], ids[i + 4], ids[i + 5]>>
                       = <<"CAS", "NM1", "DTM", "DTM", "SVC">>
                 /\ body[i + 3][2] = "232" /\ body[i + 4][2] = "233"
           /\ At(body, "PLB") \subseteq {Len(body)}

\* generate_835 was called with the hint 2 and returned a body of two claims
\* closed by a PLB segment
C21_Witness ==
    /\ Returned("835")
    /\ call.num_claims = <<2>>
    /\ call.body[1][1] = "BPR"
    /\ Cardinality(At(call.body, "CLP")) = 2
    /\ At(call.body, "PLB") = {Len(call.body)}

\* the characters that separate the components of the composite elements
\* of a body: SV1-01 and SVC-01 (HC, code), CLM-05 (place, B, 1), PLB-03,
\* HI-01.. (BK or BF, code)
CompositeSeparators(body) ==
    {CharAt(body[i][2], 3) : i \in At(body, "SV1") \cup At(body, "SVC")}
        \cup {CharAt(body[i][6], 3) : i \in At(body, "CLM")}
        \cup {CharAt(body[i][4], 3) : i \in At(body, "PLB")}
        \cup UNION {{CharAt(body[i][k], 3) : k \in 2 .. Len(body[i])} : i \in At(body, "HI")}

\* the sub-element separator a document declares: the last element of ISA
DeclaredSubElementSep(b) == ElementsOf(b.segments[1], b)[17]

\* a generator's body has been enveloped on the caller's builder
Composed == EnvelopeBuilt /\ call.generated

\* C22: in every document built by build_envelope from a generator's body
\* the sub-element separator declared in ISA-16 is the character that
\* separates the components of the composite elements of the body,
\* whatever sub_element_sep the builder was constructed with.
C22_SubElementSepConsistent ==
    Composed =>
        \A c \in CompositeSeparators(call.body) : c = DeclaredSubElementSep(builder)

\* sep in value (str containment, for a one-character sep)
Contains(value, sep) == SepPositions(value, sep) # {}

\* C23: in every document of generate_edi no element value of the body
\* contains the element separator or the segment terminator, so each body
\* segment, its terminator removed and split on the element separator, is
\* the identifier and the element values supplied, in order; the envelope
\* segments split into their fixed numbers of parts.
C23_SplitRecoversElements ==
    DocumentReturned =>
        LET segs == builder.segments
            n == Len(call.body)
        IN /\ \A i \in 1 .. n : \A k \in 1 .. Len(call.body[i]) :
                 /\ ~Contains(call.body[i][k], builder.element_sep)
                 /\ ~Contains(call.body[i][k], builder.segment_term)
           /\ \A i \in 1 .. n : ElementsOf(segs[3 + i], builder) = call.body[i]
           /\ \A i \in 1 .. Len(segs) :
                 SepPositions(segs[i], builder.segment_term) = {Len(segs[i])}
           /\ Len(ElementsOf(segs[1], builder)) = 17
           /\ Len(ElementsOf(segs[2], builder)) = 9
           /\ Len(ElementsOf(segs[3], builder)) = 4
           /\ Len(ElementsOf(segs[n + 4], builder)) = 3
           /\ Len(ElementsOf(segs[n + 5], builder)) = 3
           /\ Len(ElementsOf(segs[n + 6], builder)) = 3

\* an 837P document made from the pools of a line of business: its CLM
\* segment, with two empty elements in the middle, splits into the ten
\* values supplied
C23_Witness ==
    /\ Returned("837P")
    /\ active # DefaultActive
    /\ \E i \in At(call.body, "CLM") :
          /\ Len(call.body[i]) = 10
          /\ call.body[i][4] = "" /\ call.body[i][5] = ""
          /\ ElementsOf(builder.segments[3 + i], builder) = call.body[i]

\* C24: the element separator, the segment terminator and the sub-element
\* separator of every EDIBuilder are three mutually distinct characters.
C24_DelimitersDistinct ==
    /\ builder.element_sep # builder.segment_term
    /\ builder.element_sep # builder.sub_element_sep
    /\ builder.segment_term # builder.sub_element_sep

\* no operation on a builder changes its delimiters
DelimitersFixed ==
    [][/\ builder'.element_sep = builder.element_sep
       /\ builder'.segment_term = builder.segment_term
       /\ builder'.sub_element_sep = builder.sub_element_sep]_vars

\* C25: in every body of generate_837p, generate_270, generate_271 and
\* generate_278, for every integer hint, an HL whose has-children flag is
\* '1' is named as parent by a later HL of the body, and an HL whose flag is
\* '0' is named as parent by none.
C25_HLFlagsTruthful ==
    (DocumentReturned /\ call.txn_type \in {"837P", "270", "271", "278"}) =>
        LET hls == HLs(call.body)
        IN \A i \in 1 .. Len(hls) :
              /\ hls[i][5] \in {"0", "1"}
              /\ hls[i][5] = "1" =>
                    \E j \in i + 1 .. Len(hls) : hls[j][3] = hls[i][2]
              /\ hls[i][5] = "0" =>
                    \A j \in 1 .. Len(hls) : hls[j][3] # hls[i][2]

\* the same for the hints that are absent or not negative
HLFlagsTruthfulFromZero ==
    (call.num_claims = None \/ call.num_claims[1] >= 0) => C25_HLFlagsTruthful

\* the tables the active pools can come from
PoolSources == {"DEFAULT"} \cup SeqToSet(LOB_KEYS)

\* the key a name selects: the line of business equal to it up to case
SelectedBy(lob_name) ==
    {KnownLobs[i] : i \in {j \in 1 .. Len(KnownLobs) :
                             SameIgnoringCase(lob_name[1], KnownLobs[j])}}

\* C26: at every moment the six active pools come from one source, the
\* defaults or one LOB profile; a step changes them only when it is an
\* apply_lob call with a valid key, which then makes that key the source of
\* all six; a call with None or with an unknown key, or any other step,
\* leaves them as they are, so the source is the last valid key applied and
\* None does not restore the defaults.
C26_SingleSource ==
    /\ [](\E src \in PoolSources : active = ActiveFrom(src))
    /\ [][IF call'.op = "apply_lob" /\ call'.lob_name # None
             /\ SelectedBy(call'.lob_name) # {}
          THEN /\ out'.raised = ""
               /\ \E key \in SelectedBy(call'.lob_name) : active' = ActiveFrom(key)
          ELSE active' = active]_vars

\* apply_lob(None) has returned after a valid key was applied: the pools
\* are still those of the line of business
C26_Witness ==
    /\ LobApplied
    /\ call.lob_name = None
    /\ out.raised = ""
    /\ call.active0 = ActiveFrom("LANGUAGE")
    /\ active = ActiveFrom("LANGUAGE")

\* the ST identifier of each supported key: the key, but 837 for 837P
StIdOf(key) == IF key = "837P" THEN "837" ELSE key

\* C27: GENERATORS and TXN_META have the same keys; so for every supported
\* key, every hint and every LOB setting generate_edi returns a document,
\* no lookup in build_envelope fails, and the ST segment carries the
\* identifier registered for the key, the GS segment its functional code
\* and version.
C27_MetaForEveryKey ==
    /\ DOMAIN TXN_META = SeqToSet(GENERATOR_KEYS)
    /\ (call.op = "generate_edi" /\ call.txn_type \in SeqToSet(GENERATOR_KEYS)) =>
          /\ out.raised = ""
          /\ LET st == ElementsOf(builder.segments[3], builder)
                 gs == ElementsOf(builder.segments[2], builder)
             IN /\ st[1] = "ST"
                /\ st[2] = StIdOf(call.txn_type)
                /\ st[2] = TXN_META[call.txn_type][2]
                /\ gs[2] = TXN_META[call.txn_type][1]
                /\ gs[9] = TXN_META[call.txn_type][3]
                /\ st[4] = gs[9]

\* a 999 has been generated from the pools of a line of business, with a
\* negative hint
C27_Witness ==
    /\ Returned("999")
    /\ active = ActiveFrom("PT")
    /\ call.num_claims = <<-1>>
    /\ ElementsOf(builder.segments[3], builder)[2] = "999"

\* the statuses of the IK5 segments of a body, in order
StatusesOf(body) ==
    LET IsIK5(seg) == seg[1] = "IK5"
        ik5 == SelectSeq(body, IsIK5)
    IN [i \in 1 .. Len(ik5) |-> ik5[i][2]]

\* C28: the body of generate_999 ends with its only AK9 segment; every AK2
\* is closed by an IK5 before the next AK2; the received and included
\* counts of the AK9 are the number of AK2 segments, which is the number of
\* IK5 segments; its accepted count is the number of IK5 with status A or
\* E; its status is A exactly when no IK5 is R, R exactly when some IK5 is
\* R and none is A or E, and P otherwise.
C28_AK9Consistent ==
    Returned("999") =>
        LET body == call.body
            ak9 == body[Len(body)]
            statuses == StatusesOf(body)
            R == {i \in 1 .. Len(statuses) : statuses[i] = "R"}
            AE == {i \in 1 .. Len(statuses) : statuses[i] \in {"A", "E"}}
        IN /\ At(body, "AK9") = {Len(body)}
           /\ Len(ak9) = 5
           /\ Cardinality(At(body, "AK2")) = Len(statuses)
           /\ \A i \in At(body, "AK2") :
                 \E j \in At(body, "IK5") :
                    /\ i < j
                    /\ \A k \in At(body, "AK2") \cup At(body, "IK5") : ~(i < k /\ k < j)
           /\ \A i \in 1 .. Len(statuses) : statuses[i] \in {"A", "E", "R"}
           /\ ak9[3] = ToStr(Len(statuses))
           /\ ak9[4] = ToStr(Len(statuses))
           /\ ak9[5] = ToStr(Cardinality(AE))
           /\ ak9[2] \in {"A", "P", "R"}
           /\ ak9[2] = "A" <=> R = {}
           /\ ak9[2] = "R" <=> (R # {} /\ AE = {})
           /\ ak9[2] = "P" <=> (R # {} /\ AE # {})

\* a 999 with an accepted and a rejected transaction set: partially accepted
C28_Witness ==
    /\ Returned("999")
    /\ call.num_claims = <<2>>
    /\ call.body[Len(call.body)] = <<"AK9", "P", "2", "2", "1">>
    /\ \E i, j \in 1 .. 2 : StatusesOf(call.body)[i] = "R"
                            /\ StatusesOf(call.body)[j] \in {"A", "E"}

\* a 999 whose transaction sets are all rejected
C28_AllRejected ==
    /\ Returned("999")
    /\ call.body[Len(call.body)][2] = "R"

\* the amount in cents that a text written by f"{x:.2f}" stands for
Cents(text) ==
    LET negative == CharAt(text, 1) = "-"
        digits == IF negative THEN SubSeq(text, 2, Len(text)) ELSE text
        n == Len(digits)
        value == 100 * ToNat(SubSeq(digits, 1, n - 3)) + ToNat(SubSeq(digits, n - 1, n))
    IN IF negative THEN -value ELSE value

\* the sum of the amounts in element k of the segments of body at the
\* positions P
RECURSIVE SumCents(_, _, _)
SumCents(body, P, k) ==
    IF P = {} THEN 0
    ELSE LET i == CHOOSE j \in P : TRUE
         IN Cents(body[i][k]) + SumCents(body, P \ {i}, k)

\* C29: in every body of generate_835, in integer cents, the amount of the
\* BPR segment is the sum of the payment amounts of the CLP segments, plus
\* the adjustment amount of the PLB segment when there is one.
C29_BprIsSumOfPayments ==
    Returned("835") =>
        LET body == call.body
        IN /\ CharAt(body[1][3], Len(body[1][3]) - 2) = "."
           /\ \A i \in At(body, "CLP") : CharAt(body[i][5], Len(body[i][5]) - 2) = "."
           /\ Cardinality(At(body, "PLB")) <= 1
           /\ \A i \in At(body, "PLB") : Cents(body[i][5]) < 0
           /\ Cents(body[1][3]) = SumCents(body, At(body, "CLP"), 5)
                                    + SumCents(body, At(body, "PLB"), 5)

\* a remittance of two claims with a PLB adjustment
C29_Witness ==
    /\ Returned("835")
    /\ Cardinality(At(call.body, "CLP")) = 2
    /\ Cardinality(At(call.body, "PLB")) = 1
    /\ Cents(call.body[1][3]) > 0
    /\ Cents(call.body[1][3]) < SumCents(call.body, At(call.body, "CLP"), 5)

\* a remittance without a PLB segment
C29_NoPLB ==
    /\ Returned("835")
    /\ At(call.body, "PLB") = {}
    /\ At(call.body, "CLP") # {}

\* the ISA segment of the envelope build_envelope has just added
IsaBuilt == builder.segments[Len(call.pre) + 1]

\* the builder has the delimiters of EDIBuilder()
DefaultDelimiters ==
    /\ builder.element_sep = "*"
    /\ builder.segment_term = "~"
    /\ builder.sub_element_sep = ":"

\* C30: with the default delimiters the ISA segment is 106 characters long,
\* terminator included, and has 16 elements after its identifier, of the
\* widths 2, 10, 2, 10, 2, 15, 2, 15, 6, 4, 1, 5, 9, 1, 1, 1, for every
\* sender id, receiver id and control number.
C30_IsaLength ==
    (EnvelopeBuilt /\ DefaultDelimiters) =>
        LET isa == ElementsOf(IsaBuilt, builder)
            widths == <<3, 2, 10, 2, 10, 2, 15, 2, 15, 6, 4, 1, 5, 9, 1, 1, 1>>
        IN /\ Len(IsaBuilt) = 106
           /\ Len(isa) = 17
           /\ \A k \in 1 .. 17 : Len(isa[k]) = widths[k]

\* an envelope for a sender id of 15 and a receiver id of 19 characters
C30_Witness ==
    /\ EnvelopeBuilt
    /\ DefaultDelimiters
    /\ Len(call.sender_id) = 15
    /\ Len(call.receiver_id) = 19
    /\ Len(IsaBuilt) = 106

\* an envelope for ids shorter than 15 characters
C30_ShortIds ==
    /\ EnvelopeBuilt
    /\ DefaultDelimiters
    /\ Len(call.sender_id) = 4
    /\ Len(IsaBuilt) = 106

=============================================================================
